---------------------------- MODULE Spec2Model ----------------------------
(***************************************************************************)
(* Response interpretation and action execution of the CVDP agent          *)
(* (src/examples/agent/agent.py): _call_llm and run_agent as a state       *)
(* machine, the text functions they call as operators.                     *)
(*                                                                         *)
(* A Python str is a sequence of one-character strings, so that find,      *)
(* strip, splitlines, split, replace and startswith are computed on the    *)
(* characters as Python computes them.  Indices named "0-based" are        *)
(* Python indices; SubSeq is 1-based.                                      *)
(***************************************************************************)
EXTENDS Integers, Sequences, FiniteSets, TLC

----------------------------------------------------------------------------
(* Python str primitives                                                   *)

Min(S) == CHOOSE x \in S : \A y \in S : x <= y
Max(S) == CHOOSE x \in S : \A y \in S : x >= y

\* Whitespace of str.strip() and str.split() among the characters used.
WS == {" ", "\n", "\t"}

\* s[:n]
Take(s, n) == SubSeq(s, 1, IF n < Len(s) THEN n ELSE Len(s))

\* s[n:]
Drop(s, n) == SubSeq(s, n + 1, Len(s))

\* s[a:b], 0 <= a
Slice(s, a, b) == SubSeq(s, a + 1, IF b < Len(s) THEN b ELSE Len(s))

\* s.startswith(p, i), i 0-based
StartsWithAt(s, p, i) ==
    /\ i >= 0
    /\ i + Len(p) <= Len(s)
    /\ SubSeq(s, i + 1, i + Len(p)) = p

\* s.startswith(p)
StartsWith(s, p) == StartsWithAt(s, p, 0)

\* s.endswith(p)
EndsWith(s, p) == Len(p) <= Len(s) /\ SubSeq(s, Len(s) - Len(p) + 1, Len(s)) = p

\* s.find(p, from): 0-based index of the first occurrence at or after from, -1 if none
FindFrom(s, p, from) ==
    LET hits == {i \in from..(Len(s) - Len(p)) : StartsWithAt(s, p, i)}
    IN  IF hits = {} THEN -1 ELSE Min(hits)

\* s.find(p)
Find(s, p) == FindFrom(s, p, 0)

\* s.rfind(p)
RFind(s, p) ==
    LET hits == {i \in 0..(Len(s) - Len(p)) : StartsWithAt(s, p, i)}
    IN  IF hits = {} THEN -1 ELSE Max(hits)

\* p in s
Contains(s, p) == Find(s, p) # -1

\* s.strip()
Strip(s) ==
    LET nz == {i \in 1..Len(s) : s[i] \notin WS}
    IN  IF nz = {} THEN <<>> ELSE SubSeq(s, Min(nz), Max(nz))

\* s.rstrip()
RStrip(s) ==
    LET nz == {i \in 1..Len(s) : s[i] \notin WS}
    IN  IF nz = {} THEN <<>> ELSE SubSeq(s, 1, Max(nz))

\* s.lstrip(c) for a single character c
LStripChar(s, c) ==
    LET nz == {i \in 1..Len(s) : s[i] # c}
    IN  IF nz = {} THEN <<>> ELSE SubSeq(s, Min(nz), Len(s))

\* s.splitlines(), the line boundary being "\n"
RECURSIVE SplitLines(_)
SplitLines(s) ==
    IF s = <<>> THEN <<>>
    ELSE LET i == Find(s, <<"\n">>)
         IN  IF i = -1 THEN <<s>>
             ELSE <<Take(s, i)>> \o SplitLines(Drop(s, i + 1))

\* s.split(): the maximal runs of non-whitespace characters
RECURSIVE SplitWS(_)
SplitWS(s) ==
    LET nz == {i \in 1..Len(s) : s[i] \notin WS}
    IN  IF nz = {} THEN <<>>
        ELSE LET b  == Min(nz)
                 ws == {i \in b..Len(s) : s[i] \in WS}
                 e  == IF ws = {} THEN Len(s) + 1 ELSE Min(ws)
             IN  <<SubSeq(s, b, e - 1)>> \o SplitWS(SubSeq(s, e, Len(s)))

\* sep.join(parts)
RECURSIVE Join(_, _)
Join(parts, sep) ==
    IF parts = <<>> THEN <<>>
    ELSE IF Len(parts) = 1 THEN parts[1]
    ELSE parts[1] \o sep \o Join(Tail(parts), sep)

\* s.replace(old, new): the non-overlapping occurrences, left to right
RECURSIVE Replace(_, _, _)
Replace(s, old, new) ==
    LET i == Find(s, old)
    IN  IF i = -1 THEN s
        ELSE Take(s, i) \o new \o Replace(Drop(s, i + Len(old)), old, new)

\* str.lower() on ASCII letters
LowerOf ==
    ("A" :> "a") @@ ("B" :> "b") @@ ("C" :> "c") @@ ("D" :> "d") @@
    ("E" :> "e") @@ ("F" :> "f") @@ ("G" :> "g") @@ ("H" :> "h") @@
    ("I" :> "i") @@ ("J" :> "j") @@ ("K" :> "k") @@ ("L" :> "l") @@
    ("M" :> "m") @@ ("N" :> "n") @@ ("O" :> "o") @@ ("P" :> "p") @@
    ("Q" :> "q") @@ ("R" :> "r") @@ ("S" :> "s") @@ ("T" :> "t") @@
    ("U" :> "u") @@ ("V" :> "v") @@ ("W" :> "w") @@ ("X" :> "x") @@
    ("Y" :> "y") @@ ("Z" :> "z")

Lower(s) == [i \in 1..Len(s) |-> IF s[i] \in DOMAIN LowerOf THEN LowerOf[s[i]] ELSE s[i]]

\* os.path.join(a, b) for a relative b
PathJoin(a, b) == IF EndsWith(a, <<"/">>) THEN a \o b ELSE a \o <<"/">> \o b

\* Optional[str]: None, or a str (possibly empty)
NoneStr == [some |-> FALSE, s |-> <<>>]
Some(s) == [some |-> TRUE, s |-> s]

\* Python truthiness of an Optional[str]
Truthy(o) == o.some /\ o.s # <<>>

----------------------------------------------------------------------------
(* String literals of agent.py                                             *)

\* the backquote character, which a TLA+ string cannot hold
BQ           == "backquote"
\* the code fence, three backquotes, alone and tagged json, diff, patch
Fence        == <<BQ, BQ, BQ>>
FenceJson    == <<BQ, BQ, BQ, "j", "s", "o", "n">>
FenceDiff    == <<BQ, BQ, BQ, "d", "i", "f", "f">>
FencePatch   == <<BQ, BQ, BQ, "p", "a", "t", "c", "h">>
NL           == <<"\n">>
MinusHdr     == <<"-", "-", "-", " ">>
PlusHdr      == <<"+", "+", "+", " ">>
DiffHdr      == <<"d", "i", "f", "f", " ">>
IndexHdr     == <<"i", "n", "d", "e", "x", " ">>
HunkHdr      == <<"@", "@", " ">>
NoNewline    == <<"\\", " ", "N", "o", " ", "n", "e", "w", "l", "i", "n", "e">>
KwAction     == <<"a", "c", "t", "i", "o", "n">>
KwThought    == <<"t", "h", "o", "u", "g", "h", "t">>
KwObservation == <<"o", "b", "s", "e", "r", "v", "a", "t", "i", "o", "n">>
KwFinal      == <<"f", "i", "n", "a", "l">>
KwPatch      == <<"p", "a", "t", "c", "h">>
KwCall       == <<"c", "a", "l", "l">>
PhCodeRundir == <<"/", "c", "o", "d", "e", "/", "r", "u", "n", "d", "i", "r">>
PhCode       == <<"/", "c", "o", "d", "e">>
PhSrc        == <<"/", "s", "r", "c">>
PhRundir     == <<"/", "r", "u", "n", "d", "i", "r">>
NameSrc      == <<"s", "r", "c">>
NameRundir   == <<"r", "u", "n", "d", "i", "r">>
RtlPrefix    == <<"r", "t", "l", "/">>

\* _ALLOWED_COMMANDS
ALLOWED_COMMANDS == {
    <<"l", "s">>,
    <<"t", "r", "e", "e">>,
    <<"c", "a", "t">>,
    <<"e", "c", "h", "o">>,
    <<"i", "v", "e", "r", "i", "l", "o", "g">>,
    <<"v", "v", "p">>,
    <<"s", "e", "d">>,
    <<"a", "w", "k">>,
    <<"p", "w", "d">>,
    <<"d", "i", "f", "f">>,
    <<"f", "i", "n", "d">>
}

\* the quiet class of _execute_action_commands: {"ls", "tree", "find", "pwd"}
QUIET_COMMANDS == {
    <<"l", "s">>,
    <<"t", "r", "e", "e">>,
    <<"f", "i", "n", "d">>,
    <<"p", "w", "d">>
}

\* the [:200] of the blocked-command and command-failed diagnostics
DiagLimit == 200

\* timeout=60 of subprocess.run
CommandTimeout == 60

----------------------------------------------------------------------------
(* Payload extraction                                                      *)

\* the body of a fence opened at 0-based index start: text[start':end], where
\* start' = text.find("\n", start) + 1 and end = text.find(Fence, start');
\* found is FALSE when no closing fence follows
FenceBody(text, start) ==
    LET s2 == FindFrom(text, NL, start) + 1
        e  == FindFrom(text, Fence, s2)
    IN  [found |-> e # -1, body |-> IF e = -1 THEN <<>> ELSE Strip(Slice(text, s2, e))]

\* text[start:end + 1].strip() for the first "{" and the last "}"
BraceSpan(text) ==
    LET s == Find(text, <<"{">>)
        e == RFind(text, <<"}">>)
    IN  IF s # -1 /\ e # -1 /\ e > s THEN Some(Strip(Slice(text, s, e + 1)))
        ELSE NoneStr

\* _extract_json
_extract_json(text) ==
    IF text = <<>> THEN NoneStr
    ELSE LET start == Find(text, FenceJson)
         IN  IF Contains(text, Fence) /\ start # -1 /\ FenceBody(text, start).found
             THEN Some(FenceBody(text, start).body)
             ELSE BraceSpan(text)

\* the loop of _extract_patch over the fences tagged diff, patch and untagged
RECURSIVE FencedPatch(_, _)
FencedPatch(text, fences) ==
    IF fences = <<>> THEN NoneStr
    ELSE LET start == Find(text, Head(fences))
             fb    == FenceBody(text, start)
         IN  IF start # -1 /\ fb.found /\ StartsWith(fb.body, MinusHdr)
             THEN Some(fb.body)
             ELSE FencedPatch(text, Tail(fences))

\* diff_prefixes of _extract_patch
DIFF_PREFIXES == {DiffHdr, MinusHdr, PlusHdr, HunkHdr, <<"+">>, <<"-">>, <<" ">>, NoNewline}

\* line.startswith(prefixes) for a tuple of prefixes
StartsWithAny(line, prefixes) == \E p \in prefixes : StartsWith(line, p)

\* the raw-line scan of _extract_patch
RawPatch(text) ==
    LET lines == SplitLines(text)
        n     == Len(lines)
        cand  == {i \in 1..n :
                    /\ StartsWith(lines[i], MinusHdr)
                    /\ \E j \in (i + 1)..(IF i + 4 < n THEN i + 4 ELSE n) :
                           StartsWith(lines[j], PlusHdr)}
    IN  IF cand = {} THEN NoneStr
        ELSE LET start == Min(cand)
                 shaped == {k \in start..n : StartsWithAny(lines[k], DIFF_PREFIXES)}
                 end    == Max(shaped)
                 patch_text == Strip(Join(SubSeq(lines, start, end), NL))
             IN  IF patch_text = <<>> THEN NoneStr ELSE Some(patch_text)

\* _extract_patch
_extract_patch(text) ==
    IF text = <<>> THEN NoneStr
    ELSE LET fenced == FencedPatch(text, <<FenceDiff, FencePatch, Fence>>)
         IN  IF fenced.some THEN fenced ELSE RawPatch(text)

----------------------------------------------------------------------------
(* Action narrative: blocks, commands, gate, path rewriting                *)

\* the closed block appended to blocks: "\n".join(current).strip()
BlockOf(current) == Strip(Join(current, NL))

\* the section markers without the observation keyword
SectionMarkerNoObservation(lower) ==
    \/ StartsWith(lower, KwThought)
    \/ StartsWith(lower, KwFinal)
    \/ StartsWith(lower, KwPatch)

\* a section marker line of _extract_action_blocks (lower = line.strip().lower())
IsSectionMarker(lower) ==
    \/ StartsWith(lower, KwThought)
    \/ StartsWith(lower, KwObservation)
    \/ StartsWith(lower, KwFinal)
    \/ StartsWith(lower, KwPatch)

\* the loop step with an action line that does not close the open block
ActionLineStepKeepOpen(st, line) ==
    LET lower == Lower(Strip(line))
        colon == Find(line, <<":">>)
        rest  == Strip(Drop(line, colon + 1))
    IN  IF StartsWith(lower, KwAction)
        THEN [blocks    |-> st.blocks,
              current   |-> IF colon # -1 /\ rest # <<>>
                            THEN Append(st.current, rest) ELSE st.current,
              in_action |-> TRUE]
        ELSE IF st.in_action /\ IsSectionMarker(lower)
        THEN [blocks    |-> IF st.current # <<>>
                            THEN Append(st.blocks, BlockOf(st.current))
                            ELSE st.blocks,
              current   |-> <<>>,
              in_action |-> FALSE]
        ELSE IF st.in_action
        THEN [st EXCEPT !.current = Append(st.current, line)]
        ELSE st

\* one iteration of the for loop of _extract_action_blocks on the loop state
\* st = [blocks, current, in_action]
ActionLineStep(st, line) ==
    LET lower == Lower(Strip(line))
        colon == Find(line, <<":">>)
        rest  == Strip(Drop(line, colon + 1))
    IN  IF StartsWith(lower, KwAction)
        THEN [blocks    |-> IF st.in_action /\ st.current # <<>>
                            THEN Append(st.blocks, BlockOf(st.current))
                            ELSE st.blocks,
              current   |-> LET cur == IF st.in_action /\ st.current # <<>>
                                       THEN <<>> ELSE st.current
                            IN  IF colon # -1 /\ rest # <<>>
                                THEN Append(cur, rest) ELSE cur,
              in_action |-> TRUE]
        ELSE IF st.in_action /\ IsSectionMarker(lower)
        THEN [blocks    |-> IF st.current # <<>>
                            THEN Append(st.blocks, BlockOf(st.current))
                            ELSE st.blocks,
              current   |-> <<>>,
              in_action |-> FALSE]
        ELSE IF st.in_action
        THEN [st EXCEPT !.current = Append(st.current, line)]
        ELSE st

RECURSIVE ActionLoop(_, _)
ActionLoop(st, lines) ==
    IF lines = <<>> THEN st
    ELSE ActionLoop(ActionLineStep(st, Head(lines)), Tail(lines))

\* _extract_action_blocks
_extract_action_blocks(text) ==
    IF text = <<>> THEN <<>>
    ELSE LET st  == ActionLoop([blocks |-> <<>>, current |-> <<>>, in_action |-> FALSE],
                               SplitLines(text))
             all == IF st.in_action /\ st.current # <<>>
                    THEN Append(st.blocks, BlockOf(st.current))
                    ELSE st.blocks
         IN  SelectSeq(all, LAMBDA b : b # <<>>)

\* the quote step with a backslash escaping the next character inside single
\* quotes too
QuoteStepEscapeInSingle(ch, st) ==
    IF st.skip THEN [state |-> st.state, skip |-> FALSE]
    ELSE IF ch = "\\"
    THEN [state |-> st.state, skip |-> TRUE]
    ELSE IF ch = "'" /\ st.state # "double"
    THEN [state |-> IF st.state = "single" THEN "none" ELSE "single", skip |-> FALSE]
    ELSE IF ch = "\"" /\ st.state # "single"
    THEN [state |-> IF st.state = "double" THEN "none" ELSE "double", skip |-> FALSE]
    ELSE st

\* one character of the while loop of _update_quote_state.  The loop state is
\* st = [state, skip]: state is "none", "single" or "double", and skip says
\* that this character is the one the i += 2 of the previous iteration jumps
\* over.
QuoteStep(ch, st) ==
    IF st.skip THEN [state |-> st.state, skip |-> FALSE]
    ELSE IF ch = "\\" /\ st.state # "single"
    THEN [state |-> st.state, skip |-> TRUE]
    ELSE IF ch = "'" /\ st.state # "double"
    THEN [state |-> IF st.state = "single" THEN "none" ELSE "single", skip |-> FALSE]
    ELSE IF ch = "\"" /\ st.state # "single"
    THEN [state |-> IF st.state = "double" THEN "none" ELSE "double", skip |-> FALSE]
    ELSE st

\* the while loop over line[lo..hi] (1-based, lo <= hi), left to right.  The
\* range is halved and the left half is evaluated (the test on left.skip)
\* before the right half is entered, so that the evaluation depth is
\* logarithmic in the length of the line.
RECURSIVE QuoteRun(_, _, _, _)
QuoteRun(line, lo, hi, st) ==
    IF lo = hi THEN QuoteStep(line[lo], st)
    ELSE LET mid  == (lo + hi) \div 2
             left == QuoteRun(line, lo, mid, st)
         IN  IF left.skip \in BOOLEAN THEN QuoteRun(line, mid + 1, hi, left) ELSE left

\* _update_quote_state
_update_quote_state(line, state) ==
    IF line = <<>> THEN state
    ELSE QuoteRun(line, 1, Len(line), [state |-> state, skip |-> FALSE]).state

\* one iteration of the for loop of _split_commands on the loop state
\* st = [commands, current, quote_state]
SplitLineStep(st, line) ==
    IF st.current = <<>> /\ Strip(line) = <<>> THEN st
    ELSE LET current == Append(st.current, line)
             q       == _update_quote_state(line, st.quote_state)
             cmd     == Strip(Join(current, NL))
         IN  IF q = "none" /\ ~EndsWith(RStrip(line), <<"\\">>)
             THEN [commands    |-> IF cmd # <<>> THEN Append(st.commands, cmd)
                                   ELSE st.commands,
                   current     |-> <<>>,
                   quote_state |-> q]
             ELSE [commands |-> st.commands, current |-> current, quote_state |-> q]

RECURSIVE SplitLoop(_, _)
SplitLoop(st, lines) ==
    IF lines = <<>> THEN st
    ELSE SplitLoop(SplitLineStep(st, Head(lines)), Tail(lines))

\* _split_commands
_split_commands(block) ==
    LET st  == SplitLoop([commands |-> <<>>, current |-> <<>>, quote_state |-> "none"],
                         SplitLines(block))
        cmd == Strip(Join(st.current, NL))
    IN  IF st.current # <<>> /\ cmd # <<>> THEN Append(st.commands, cmd)
        ELSE st.commands

\* re.sub(r'(^|[\\s=])/rundir', r'\\1' + rundir, cmd) on the part of cmd not
\* yet scanned; at_start says that the part begins at index 0 of cmd, where
\* alone ^ matches.  The pattern's class [\\s=] holds the three characters
\* backslash, "s" and "="; the template \\1 is an escaped backslash followed
\* by "1".  A match at 0-based index i has group 1 empty (7 characters) or one
\* class character (8 characters).
RECURSIVE SubRundir(_, _, _)
SubRundir(cmd, at_start, rundir) ==
    LET bare == at_start /\ StartsWith(cmd, PhRundir)
        hits == {i \in 0..(Len(cmd) - 1) :
                    cmd[i + 1] \in {"\\", "s", "="} /\ StartsWithAt(cmd, PhRundir, i + 1)}
    IN  IF bare
        THEN <<"\\", "1">> \o rundir \o SubRundir(Drop(cmd, Len(PhRundir)), FALSE, rundir)
        ELSE IF hits = {} THEN cmd
        ELSE Take(cmd, Min(hits)) \o <<"\\", "1">> \o rundir
             \o SubRundir(Drop(cmd, Min(hits) + 1 + Len(PhRundir)), FALSE, rundir)

\* _rewrite_command_paths that also resolves the program name against the
\* code directory (the command then starts with a path, not with the name)
RewriteResolvingProgram(cmd, code_dir, issue_dir) ==
    LET src_dir == PathJoin(issue_dir, NameSrc)
        rundir  == PathJoin(issue_dir, NameRundir)
        c1 == Replace(cmd, PhCodeRundir, rundir)
        c2 == Replace(c1, PhCode, code_dir)
        c3 == Replace(c2, PhSrc, src_dir)
    IN  PathJoin(code_dir, SubRundir(c3, TRUE, rundir))

\* _rewrite_command_paths; issue_dir is os.getenv("CVDP_ISSUE_DIR", code_dir)
_rewrite_command_paths(cmd, code_dir, issue_dir) ==
    LET src_dir == PathJoin(issue_dir, NameSrc)
        rundir  == PathJoin(issue_dir, NameRundir)
        c1 == Replace(cmd, PhCodeRundir, rundir)
        c2 == Replace(c1, PhCode, code_dir)
        c3 == Replace(c2, PhSrc, src_dir)
    IN  SubRundir(c3, TRUE, rundir)

\* a gate that lets every non-blank command through (what the gate would be
\* without the allow-list lookup)
AllowAnyCommand(cmd) == Strip(cmd) # <<>>

\* _is_allowed_command
_is_allowed_command(cmd) ==
    LET stripped == Strip(cmd)
    IN  IF stripped = <<>> THEN FALSE
        ELSE SplitWS(stripped)[1] \in ALLOWED_COMMANDS

\* cmd.splitlines()[0][:200]
FirstLine200(cmd) == Take(SplitLines(cmd)[1], DiagLimit)

\* _extract_malformed_call_text on raw["candidates"], a list of finish_message
\* values (<<>> for a missing or empty one)
RECURSIVE _extract_malformed_call_text(_)
_extract_malformed_call_text(candidates) ==
    IF candidates = <<>> THEN NoneStr
    ELSE LET msg == Head(candidates)
             idx == Find(msg, KwCall)
         IN  IF idx # -1 THEN Some(Strip(Drop(msg, idx + 4)))
             ELSE _extract_malformed_call_text(Tail(candidates))

\* lines 333-338 with the metadata consulted whatever the parser found: the
\* synthetic block is added to the parsed ones
ActionBlocksWithMetadata(text, candidates) ==
    LET blocks    == _extract_action_blocks(text)
        malformed == _extract_malformed_call_text(candidates)
    IN  IF candidates # <<>> /\ Truthy(malformed)
        THEN Append(blocks, malformed.s)
        ELSE blocks

\* blocks of _execute_action_commands before its loop (lines 333-338)
ActionBlocksFor(text, candidates) ==
    LET blocks    == _extract_action_blocks(text)
        malformed == _extract_malformed_call_text(candidates)
    IN  IF blocks = <<>> /\ candidates # <<>> /\ Truthy(malformed)
        THEN <<malformed.s>>
        ELSE blocks

\* the commands of all blocks in loop order: for block in blocks: for cmd in
\* _split_commands(block)
RECURSIVE CommandsOf(_)
CommandsOf(blocks) ==
    IF blocks = <<>> THEN <<>>
    ELSE _split_commands(Head(blocks)) \o CommandsOf(Tail(blocks))

----------------------------------------------------------------------------
(* Patch sanitizing                                                        *)

\* allowed_prefixes of _sanitize_patch
ALLOWED_PREFIXES ==
    {DiffHdr, IndexHdr, MinusHdr, PlusHdr, HunkHdr, <<"+">>, <<"-">>, <<" ">>, NoNewline}

\* _sanitize_patch
_sanitize_patch(patch_text) ==
    LET lines  == SplitLines(patch_text)
        heads  == {i \in 1..Len(lines) :
                     StartsWith(lines[i], DiffHdr) \/ StartsWith(lines[i], MinusHdr)}
        start  == IF heads = {} THEN 1 ELSE Min(heads)
        kept   == SelectSeq(SubSeq(lines, start, Len(lines)),
                            LAMBDA l : ~StartsWith(l, Fence)
                                       /\ StartsWithAny(l, ALLOWED_PREFIXES))
    IN  Strip(Join(kept, NL))

\* re.search(r'^[+-]{3} [ab]/', patch_text, re.M): strip depth 1, else 0
StripDepth(patch_text) ==
    LET lines == SplitLines(patch_text)
    IN  IF \E i \in 1..Len(lines) :
              /\ Len(lines[i]) >= 6
              /\ \A k \in 1..3 : lines[i][k] \in {"+", "-"}
              /\ lines[i][4] = " "
              /\ lines[i][5] \in {"a", "b"}
              /\ lines[i][6] = "/"
        THEN 1 ELSE 0

----------------------------------------------------------------------------
(* json.loads and the AgentResponse constructor, lines 494 and 498         *)
(*                                                                         *)
(* A JSON value is [t, s, keys, items]: t is "str", "num", "lit", "arr" or *)
(* "obj"; s the characters of a string, the lexeme of a number or the name *)
(* of a literal; items the elements of an array or the member values of an *)
(* object, keys the member names in order.  The decoder is the standard    *)
(* library's: whitespace is space, tab, newline and carriage return; a     *)
(* string holds no raw control character (strict mode); a trailing comma   *)
(* and trailing text are errors.  The \u escape is rejected here: no       *)
(* response of the model holds one.                                        *)

JStr(s)           == [t |-> "str", s |-> s, keys |-> <<>>, items |-> <<>>]
JNum(lexeme)      == [t |-> "num", s |-> lexeme, keys |-> <<>>, items |-> <<>>]
JLit(name)        == [t |-> "lit", s |-> name, keys |-> <<>>, items |-> <<>>]
JArr(items)       == [t |-> "arr", s |-> <<>>, keys |-> <<>>, items |-> items]
JObj(keys, items) == [t |-> "obj", s |-> <<>>, keys |-> keys, items |-> items]

LitNull == <<"n", "u", "l", "l">>
LitTrue == <<"t", "r", "u", "e">>
LitFalse == <<"f", "a", "l", "s", "e">>
LitNaN == <<"N", "a", "N">>
LitInfinity == <<"I", "n", "f", "i", "n", "i", "t", "y">>

JSON_WS == {" ", "\t", "\n", "\r"}
DIGITS == {"0", "1", "2", "3", "4", "5", "6", "7", "8", "9"}

\* the backspace character of the \b escape
BS == "backspace"

\* BACKSLASH of json.decoder: the character each escape stands for
JSON_ESCAPES ==
    ("\"" :> "\"") @@ ("\\" :> "\\") @@ ("/" :> "/") @@ ("b" :> BS) @@
    ("f" :> "\f") @@ ("n" :> "\n") @@ ("r" :> "\r") @@ ("t" :> "\t")

\* a scan result: ok, the value, the 0-based index after it
ScanFail == [ok |-> FALSE, v |-> JLit(LitNull), pos |-> 0]
ScanOk(v, pos) == [ok |-> TRUE, v |-> v, pos |-> pos]

\* the 0-based index of the first character at or after i not in chars (len(s) if none)
SkipChars(s, i, chars) ==
    LET rest == {j \in i..(Len(s) - 1) : s[j + 1] \notin chars}
    IN  IF rest = {} THEN (IF i > Len(s) THEN i ELSE Len(s)) ELSE Min(rest)

\* s[i:i+1] == c
CharAt(s, i, c) == i >= 0 /\ i < Len(s) /\ s[i + 1] = c

\* the decoded text of a string body that holds valid escapes only
RECURSIVE Unescape(_)
Unescape(raw) ==
    LET k == Find(raw, <<"\\">>)
    IN  IF k = -1 THEN raw
        ELSE Take(raw, k) \o <<JSON_ESCAPES[raw[k + 2]]>> \o Unescape(Drop(raw, k + 2))

\* every backslash of the body that starts an escape is followed by a
\* character of JSON_ESCAPES
RECURSIVE EscapesValid(_)
EscapesValid(raw) ==
    LET k == Find(raw, <<"\\">>)
    IN  IF k = -1 THEN TRUE
        ELSE /\ k + 1 < Len(raw)
             /\ raw[k + 2] \in DOMAIN JSON_ESCAPES
             /\ EscapesValid(Drop(raw, k + 2))

\* scanstring(s, i): i is the 0-based index after the opening quote.  The
\* closing quote is the first quote preceded, within the body, by an even
\* number of consecutive backslashes.
ScanString(s, i) ==
    LET closers == {p \in i..(Len(s) - 1) :
                      /\ s[p + 1] = "\""
                      /\ LET nb == {j \in i..(p - 1) : s[j + 1] # "\\"}
                             run == IF nb = {} THEN p - i ELSE p - 1 - Max(nb)
                         IN  run % 2 = 0}
    IN  IF closers = {} THEN ScanFail
        ELSE LET end == Min(closers)
                 raw == Slice(s, i, end)
             IN  IF (\E j \in 1..Len(raw) : raw[j] \in {"\n", "\t", "\r", "\f", BS})
                    \/ ~EscapesValid(raw)
                 THEN ScanFail
                 ELSE ScanOk(JStr(Unescape(raw)), end + 1)

\* the characters a number lexeme is made of
NUMBER_CHARS == DIGITS \cup {"-", "+", ".", "e", "E"}

\* s[a:b] is a non-empty string of digits
IsDigits(s, a, b) == a < b /\ b <= Len(s) /\ \A j \in (a + 1)..b : s[j] \in DIGITS

\* NUMBER_RE matches exactly s[i:e]: n is the index after the sign, a after
\* the integer part, b after the fraction, c after the exponent's sign
IsNumber(s, i, e) ==
    \E n \in {i, i + 1} : \E a \in (n + 1)..e : \E b \in a..e :
        /\ n = i + 1 => CharAt(s, i, "-")
        /\ IsDigits(s, n, a)
        /\ CharAt(s, n, "0") => a = n + 1
        /\ b = a \/ (CharAt(s, a, ".") /\ IsDigits(s, a + 1, b))
        /\ \/ e = b
           \/ /\ CharAt(s, b, "e") \/ CharAt(s, b, "E")
              /\ \E c \in {b + 1, b + 2} :
                    /\ c = b + 2 => (CharAt(s, b + 1, "-") \/ CharAt(s, b + 1, "+"))
                    /\ IsDigits(s, c, e)

\* NUMBER_RE.match(s, i): an optional "-", then "0" or a digit string without
\* leading zero, then an optional fraction ("." and digits), then an optional
\* exponent ("e" or "E", an optional sign, digits); the match is the
\* longest prefix of s[i:] the expression matches
ScanNumber(s, i) ==
    LET ends == {e \in (i + 1)..SkipChars(s, i, NUMBER_CHARS) : IsNumber(s, i, e)}
    IN  IF ends = {} THEN ScanFail
        ELSE ScanOk(JNum(Slice(s, i, Max(ends))), Max(ends))

RECURSIVE ScanOnce(_, _), ScanMembers(_, _, _, _), ScanItems(_, _, _)

\* scan_once(s, i) of json.scanner
ScanOnce(s, i) ==
    IF i >= Len(s) THEN ScanFail
    ELSE IF CharAt(s, i, "\"") THEN ScanString(s, i + 1)
    ELSE IF CharAt(s, i, "{")
    THEN LET j == SkipChars(s, i + 1, JSON_WS)
         IN  IF CharAt(s, j, "}") THEN ScanOk(JObj(<<>>, <<>>), j + 1)
             ELSE IF CharAt(s, j, "\"") THEN ScanMembers(s, j, <<>>, <<>>)
             ELSE ScanFail
    ELSE IF CharAt(s, i, "[")
    THEN LET j == SkipChars(s, i + 1, JSON_WS)
         IN  IF CharAt(s, j, "]") THEN ScanOk(JArr(<<>>), j + 1)
             ELSE ScanItems(s, j, <<>>)
    ELSE IF StartsWithAt(s, LitNull, i) THEN ScanOk(JLit(LitNull), i + 4)
    ELSE IF StartsWithAt(s, LitTrue, i) THEN ScanOk(JLit(LitTrue), i + 4)
    ELSE IF StartsWithAt(s, LitFalse, i) THEN ScanOk(JLit(LitFalse), i + 5)
    ELSE IF ScanNumber(s, i).ok THEN ScanNumber(s, i)
    ELSE IF StartsWithAt(s, LitNaN, i) THEN ScanOk(JLit(LitNaN), i + 3)
    ELSE IF StartsWithAt(s, LitInfinity, i) THEN ScanOk(JLit(LitInfinity), i + 8)
    ELSE IF StartsWithAt(s, <<"-">> \o LitInfinity, i)
    THEN ScanOk(JLit(<<"-">> \o LitInfinity), i + 9)
    ELSE ScanFail

\* the member loop of JSONObject: s[i] is the opening quote of a member name
ScanMembers(s, i, keys, items) ==
    LET k  == ScanString(s, i + 1)
        c  == SkipChars(s, k.pos, JSON_WS)
        v  == ScanOnce(s, SkipChars(s, c + 1, JSON_WS))
        d  == SkipChars(s, v.pos, JSON_WS)
        n  == SkipChars(s, d + 1, JSON_WS)
    IN  IF ~k.ok \/ ~CharAt(s, c, ":") THEN ScanFail
        ELSE IF ~v.ok THEN ScanFail
        ELSE IF CharAt(s, d, "}")
        THEN ScanOk(JObj(Append(keys, k.v.s), Append(items, v.v)), d + 1)
        ELSE IF CharAt(s, d, ",") /\ CharAt(s, n, "\"")
        THEN ScanMembers(s, n, Append(keys, k.v.s), Append(items, v.v))
        ELSE ScanFail

\* the element loop of JSONArray: an element is expected at index i
ScanItems(s, i, items) ==
    LET v == ScanOnce(s, i)
        d == SkipChars(s, v.pos, JSON_WS)
    IN  IF ~v.ok THEN ScanFail
        ELSE IF CharAt(s, d, "]") THEN ScanOk(JArr(Append(items, v.v)), d + 1)
        ELSE IF CharAt(s, d, ",")
        THEN ScanItems(s, SkipChars(s, d + 1, JSON_WS), Append(items, v.v))
        ELSE ScanFail

\* json.loads(json_text): [ok, v]; ok is FALSE where json.loads raises
json_loads(s) ==
    LET r == ScanOnce(s, SkipChars(s, 0, JSON_WS))
    IN  IF r.ok /\ SkipChars(s, r.pos, JSON_WS) = Len(s)
        THEN [ok |-> TRUE, v |-> r.v]
        ELSE [ok |-> FALSE, v |-> JLit(LitNull)]

KeyFiles   == <<"f", "i", "l", "e", "s">>
KeySummary == <<"s", "u", "m", "m", "a", "r", "y">>
KeyPath    == <<"p", "a", "t", "h">>
KeyContent == <<"c", "o", "n", "t", "e", "n", "t">>

\* key in d, for a decoded object d
HasKey(d, key) == \E i \in 1..Len(d.keys) : d.keys[i] = key

\* d[key]: of members with the same name the decoder keeps the last
GetKey(d, key) == d.items[Max({i \in 1..Len(d.keys) : d.keys[i] = key})]

\* FileChange validation of one element of files: an object whose path and
\* content are both strings (other members are ignored)
FileChangeValid(v) ==
    /\ v.t = "obj"
    /\ HasKey(v, KeyPath) /\ GetKey(v, KeyPath).t = "str"
    /\ HasKey(v, KeyContent) /\ GetKey(v, KeyContent).t = "str"

\* FileChange
FileChange(v) == [path |-> GetKey(v, KeyPath).s, content |-> GetKey(v, KeyContent).s]

\* AgentResponse(files=[], summary=summary)
EmptyResponse(summary) == [files |-> <<>>, summary |-> summary]

\* AgentResponse applied to the decoded data: [ok, r]; ok is FALSE where the call raises (data is
\* no mapping, files is no list of valid FileChange objects, summary is
\* neither a string nor null)
AgentResponse(data) ==
    LET files   == IF HasKey(data, KeyFiles) THEN GetKey(data, KeyFiles) ELSE JArr(<<>>)
        summary == IF HasKey(data, KeySummary) THEN GetKey(data, KeySummary)
                   ELSE JLit(LitNull)
    IN  IF /\ data.t = "obj"
           /\ files.t = "arr"
           /\ \A i \in 1..Len(files.items) : FileChangeValid(files.items[i])
           /\ (summary.t = "str" \/ summary = JLit(LitNull))
        THEN [ok |-> TRUE,
              r  |-> [files   |-> [i \in 1..Len(files.items) |-> FileChange(files.items[i])],
                      summary |-> IF summary.t = "str" THEN Some(summary.s) ELSE NoneStr]]
        ELSE [ok |-> FALSE, r |-> EmptyResponse(NoneStr)]

----------------------------------------------------------------------------
(* The responses and the environment the model draws from                  *)

\* '{"files":[{"path":"rtl/top.v","content":"m"}]}'
JsonTop ==
    <<"{", "\"", "f", "i", "l", "e", "s", "\"", ":", "[", "{", "\"", "p",
      "a", "t", "h", "\"", ":", "\"", "r", "t", "l", "/", "t", "o", "p", ".",
      "v", "\"", ",", "\"", "c", "o", "n", "t", "e", "n", "t", "\"", ":",
      "\"", "m", "\"", "}", "]", "}">>

\* '{"files":[{"path":" /rtl/../x","content":"a"},{"path":"doc/y","content":"b"}],"summary":"s"}'
JsonPaths ==
    <<"{", "\"", "f", "i", "l", "e", "s", "\"", ":", "[", "{", "\"", "p",
      "a", "t", "h", "\"", ":", "\"", " ", "/", "r", "t", "l", "/", ".", ".",
      "/", "x", "\"", ",", "\"", "c", "o", "n", "t", "e", "n", "t", "\"",
      ":", "\"", "a", "\"", "}", ",", "{", "\"", "p", "a", "t", "h", "\"",
      ":", "\"", "d", "o", "c", "/", "y", "\"", ",", "\"", "c", "o", "n",
      "t", "e", "n", "t", "\"", ":", "\"", "b", "\"", "}", "]", ",", "\"",
      "s", "u", "m", "m", "a", "r", "y", "\"", ":", "\"", "s", "\"", "}">>

\* '{"files":5}'
JsonBadSchema ==
    <<"{", "\"", "f", "i", "l", "e", "s", "\"", ":", "5", "}">>

\* {"files":[{"path":"rtl/r.md","content":"<fence>json"}]}
JsonFenceInside ==
    <<"{", "\"", "f", "i", "l", "e", "s", "\"", ":", "[", "{", "\"", "p",
      "a", "t", "h", "\"", ":", "\"", "r", "t", "l", "/", "r", ".", "m", "d",
      "\"", ",", "\"", "c", "o", "n", "t", "e", "n", "t", "\"", ":", "\"",
      BQ, BQ, BQ, "j", "s", "o", "n", "\"", "}", "]", "}">>

\* <fence>diff, --- a/f, +++ b/f, @@ -1 +1 @@, -x, +y, <fence>
DiffFenced ==
    <<BQ, BQ, BQ, "d", "i", "f", "f", "\n", "-", "-", "-", " ", "a", "/",
      "f", "\n", "+", "+", "+", " ", "b", "/", "f", "\n", "@", "@", " ", "-",
      "1", " ", "+", "1", " ", "@", "@", "\n", "-", "x", "\n", "+", "y",
      "\n", BQ, BQ, BQ>>

\* <fence>diff, --- a/f, +++ b/f, @@ -0,0 +1 @@, +{}, <fence>
DiffObject ==
    <<BQ, BQ, BQ, "d", "i", "f", "f", "\n", "-", "-", "-", " ", "a", "/",
      "f", "\n", "+", "+", "+", " ", "b", "/", "f", "\n", "@", "@", " ", "-",
      "0", ",", "0", " ", "+", "1", " ", "@", "@", "\n", "+", "{", "}", "\n",
      BQ, BQ, BQ>>

\* <fence>diff, --- a/f, +++ b/f, @@ -1 +1 @@, -y={a};, +y={b};, <fence>
DiffBraces ==
    <<BQ, BQ, BQ, "d", "i", "f", "f", "\n", "-", "-", "-", " ", "a", "/",
      "f", "\n", "+", "+", "+", " ", "b", "/", "f", "\n", "@", "@", " ", "-",
      "1", " ", "+", "1", " ", "@", "@", "\n", "-", "y", "=", "{", "a", "}",
      ";", "\n", "+", "y", "=", "{", "b", "}", ";", "\n", BQ, BQ, BQ>>

\* 'Action: ls -la\nObservation: ok'
ActLs ==
    <<"A", "c", "t", "i", "o", "n", ":", " ", "l", "s", " ", "-", "l", "a",
      "\n", "O", "b", "s", "e", "r", "v", "a", "t", "i", "o", "n", ":", " ",
      "o", "k">>

\* 'Action:\nls /rundir\nrm -rf /\ncat "a\nb" /code/x\n\nwget '
ActFiveHead ==
    <<"A", "c", "t", "i", "o", "n", ":", "\n", "l", "s", " ", "/", "r", "u",
      "n", "d", "i", "r", "\n", "r", "m", " ", "-", "r", "f", " ", "/", "\n",
      "c", "a", "t", " ", "\"", "a", "\n", "b", "\"", " ", "/", "c", "o",
      "d", "e", "/", "x", "\n", "\n", "w", "g", "e", "t", " ">>

\* '\necho hi\nFinal: done'
ActFiveTail ==
    <<"\n", "e", "c", "h", "o", " ", "h", "i", "\n", "F", "i", "n", "a", "l",
      ":", " ", "d", "o", "n", "e">>

\* 'hello'
Prose ==
    <<"h", "e", "l", "l", "o">>

\* 'malformed call ls /src'
MalformedCall ==
    <<"m", "a", "l", "f", "o", "r", "m", "e", "d", " ", "c", "a", "l", "l",
      " ", "l", "s", " ", "/", "s", "r", "c">>

\* '/code'
DirCode ==
    <<"/", "c", "o", "d", "e">>

\* '/w/code'
DirWork ==
    <<"/", "w", "/", "c", "o", "d", "e">>

\* '/i/src7'
DirIssue ==
    <<"/", "i", "/", "s", "r", "c", "7">>

\* the argument of wget in ActFive: one character more than the diagnostics keep
LongArg == [i \in 1..(DiagLimit + 1) |-> "a"]

\* a narrative of five commands: ls /rundir, rm -rf /, a cat whose quoted
\* argument spans two lines, a wget with a first line longer than DiagLimit,
\* echo hi
ActFive == ActFiveHead \o LongArg \o ActFiveTail

\* the fragments a response is made of
Parts == {JsonTop, JsonPaths, JsonBadSchema, JsonFenceInside, DiffFenced, DiffObject,
          DiffBraces, ActLs, ActFive, Prose}

\* the largest number of fragments in one response
MaxParts == 2

\* the responses of at most n fragments, each fragment on lines of its own
RECURSIVE TextsOf(_)
TextsOf(n) ==
    IF n = 0 THEN {<<>>}
    ELSE IF n = 1 THEN {<<>>} \cup Parts
    ELSE TextsOf(n - 1)
         \cup {t \o NL \o p : t \in TextsOf(n - 1) \ {<<>>}, p \in Parts}

Responses == TextsOf(MaxParts)

\* raw["candidates"] of the serialized response, as the list of finish_message
\* values: no candidate carries one, or one reports a malformed call
CandidateLists == {<<>>, <<MalformedCall>>}

\* CVDP_CODE_DIR and CVDP_ISSUE_DIR (issue_dir = code_dir when unset)
Configs == {[code_dir |-> DirCode, issue_dir |-> DirCode],
            [code_dir |-> DirWork, issue_dir |-> DirIssue]}

----------------------------------------------------------------------------
(* _call_llm and run_agent                                                 *)

VARIABLES
    pc,          \* the position in run_agent / _call_llm
    config,      \* [code_dir, issue_dir]
    api_key,     \* GCP_API_KEY is set
    text,        \* the response text
    candidates,  \* the finish messages of the raw response
    status,      \* the status dict of _call_llm
    json_text,   \* local of _call_llm
    data,        \* local of _call_llm: the decoded JSON value
    e,           \* the exception bound by "except Exception as e" (line 499)
    patch_text,  \* local of _call_llm
    patch_error, \* the exception bound by "except Exception as patch_error"
    blocks,      \* local of _execute_action_commands
    queue,       \* the commands the loops of _execute_action_commands have yet to visit
    executed,    \* local of _execute_action_commands
    errors,      \* local of _execute_action_commands
    response,    \* the AgentResponse _call_llm returns
    files_left,  \* the changes the loop of run_agent has yet to visit
    stages,      \* history: the stages attempted, [stage, ok]
    patch_calls, \* history: the invocations of the patch collaborator, [strip, patch]
    tmp_files,   \* the temporary patch files that exist
    spawned,     \* history: the shell processes spawned, [cmd, source, quiet]
    running,     \* the shell processes spawned and not yet waited for
    written,     \* history: the write_file calls of the file-change loop
    skipped,     \* history: the file changes the loop dropped
    reports,     \* the report files run_agent wrote
    log_records, \* the number of records appended to the LLM log
    visited,     \* history: the commands the loops of _execute_action_commands dealt with
    fn,          \* the text function applied on its own, by name
    arg,         \* its argument
    out          \* its result

callvars == <<pc, config, api_key, text, candidates, status, json_text, data, e,
          patch_text, patch_error, blocks, queue, executed, errors, response,
          files_left, stages, patch_calls, tmp_files, spawned, running, written,
          skipped, reports, log_records, visited>>

\* the variables of a text function applied on its own
bench == <<fn, arg, out>>

vars == <<callvars, bench>>

\* the status dict as created at lines 444-454 (model and tool_calls left out)
InitialStatus ==
    [llm_response_text_len |-> 0,
     parsed_json           |-> FALSE,
     patch_applied         |-> FALSE,
     commands_executed     |-> 0,
     commands_errors       |-> 0,
     actionable_output     |-> FALSE,
     error                 |-> "None"]

\* the summaries _call_llm writes itself, by their first word
SummaryError    == Some(<<"E", "R", "R", "O", "R">>)
SummaryExecuted == Some(<<"e", "x", "e", "c", "u", "t", "e", "d">>)

Init ==
    /\ pc = "call"
    /\ config \in Configs
    /\ api_key \in BOOLEAN
    /\ text = <<>>
    /\ candidates = <<>>
    /\ status = InitialStatus
    /\ json_text = NoneStr
    /\ data = JLit(LitNull)
    /\ e = "None"
    /\ patch_text = NoneStr
    /\ patch_error = "None"
    /\ blocks = <<>>
    /\ queue = <<>>
    /\ executed = 0
    /\ errors = <<>>
    /\ response = EmptyResponse(NoneStr)
    /\ files_left = <<>>
    /\ stages = <<>>
    /\ patch_calls = <<>>
    /\ tmp_files = 0
    /\ spawned = <<>>
    /\ running = {}
    /\ written = <<>>
    /\ skipped = <<>>
    /\ reports = {}
    /\ log_records = 0
    /\ visited = <<>>
    /\ fn = "none"
    /\ arg = <<>>
    /\ out = <<>>

\* return response, status (to run_agent, whose loop starts on response.files)
Return(r) ==
    /\ response' = r
    /\ files_left' = r.files
    /\ pc' = "returned"

\* the handler of line 550: status["error"] = str(e), an empty ERROR response
OuterExcept(msg) ==
    /\ status' = [status EXCEPT !.error = msg]
    /\ Return(EmptyResponse(SummaryError))

\* line 443: client = _get_genai_client(), outside the try of line 473
GetClient ==
    /\ pc = "call"
    /\ pc' = IF api_key THEN "request" ELSE "raised"
    /\ UNCHANGED <<config, api_key, text, candidates, status, json_text, data, e,
                   patch_text, patch_error, blocks, queue, executed, errors,
                   response, files_left, stages, patch_calls, tmp_files, spawned,
                   running, written, skipped, reports, log_records,
                   visited>>
    /\ UNCHANGED bench

\* lines 474-481: the model request; it raises, or yields a response
GenerateContent ==
    /\ pc = "request"
    /\ \/ /\ OuterExcept("request failed")
          /\ UNCHANGED <<text, candidates>>
       \/ \E t \in Responses, c \in CandidateLists :
             /\ text' = t
             /\ candidates' = c
             /\ status' = [status EXCEPT !.llm_response_text_len = Len(t)]
             /\ pc' = "log"
             /\ UNCHANGED <<response, files_left>>
    /\ UNCHANGED <<config, api_key, json_text, data, e, patch_text, patch_error,
                   blocks, queue, executed, errors, stages, patch_calls, tmp_files,
                   spawned, running, written, skipped, reports, log_records,
                   visited>>
    /\ UNCHANGED bench

\* lines 482-490: _log_llm_step appends one record, or raises
LogStep ==
    /\ pc = "log"
    /\ \/ /\ OuterExcept("log failed")
          /\ UNCHANGED log_records
       \/ /\ log_records' = log_records + 1
          /\ pc' = "extract_json"
          /\ UNCHANGED <<status, response, files_left>>
    /\ UNCHANGED <<config, api_key, text, candidates, json_text, data, e, patch_text,
                   patch_error, blocks, queue, executed, errors, stages, patch_calls,
                   tmp_files, spawned, running, written, skipped, reports,
                   visited>>
    /\ UNCHANGED bench

\* lines 491-492: json_text = _extract_json(text); if json_text:
ExtractJson ==
    /\ pc = "extract_json"
    /\ json_text' = _extract_json(text)
    /\ pc' = IF Truthy(json_text') THEN "loads" ELSE "extract_patch"
    /\ UNCHANGED <<config, api_key, text, candidates, status, data, e, patch_text,
                   patch_error, blocks, queue, executed, errors, response, files_left,
                   stages, patch_calls, tmp_files, spawned, running, written, skipped,
                   reports, log_records,
                   visited>>
    /\ UNCHANGED bench

\* lines 494-497: data = json.loads(json_text) and the two status flags, or
\* the exception of line 499
LoadJson ==
    /\ pc = "loads"
    /\ LET r == json_loads(json_text.s)
       IN  /\ stages' = Append(stages, [stage |-> "json", ok |-> r.ok])
           /\ IF r.ok
              THEN /\ data' = r.v
                   /\ status' = [status EXCEPT !.parsed_json = TRUE,
                                               !.actionable_output = TRUE]
                   /\ pc' = "construct"
                   /\ UNCHANGED e
              ELSE /\ e' = "JSONDecodeError"
                   /\ pc' = "extract_patch"
                   /\ UNCHANGED <<data, status>>
    /\ UNCHANGED <<config, api_key, text, candidates, json_text, patch_text,
                   patch_error, blocks, queue, executed, errors, response, files_left,
                   patch_calls, tmp_files, spawned, running, written, skipped,
                   reports, log_records,
                   visited>>
    /\ UNCHANGED bench

\* line 498 without its return: the response is built and the call goes on to
\* the diff stage
ConstructFallThrough ==
    /\ pc = "construct"
    /\ LET r == AgentResponse(data)
       IN  /\ stages' = Append(stages, [stage |-> "construct", ok |-> r.ok])
           /\ response' = IF r.ok THEN r.r ELSE response
           /\ e' = IF r.ok THEN e ELSE "ValidationError"
           /\ pc' = "extract_patch"
    /\ UNCHANGED <<config, api_key, text, candidates, status, json_text, data,
                   patch_text, patch_error, blocks, queue, executed, errors,
                   files_left, patch_calls, tmp_files, spawned, running, written,
                   skipped, reports, log_records,
                   visited>>
    /\ UNCHANGED bench

\* line 498: return AgentResponse(**data), status, or the exception of line 499
Construct ==
    /\ pc = "construct"
    /\ LET r == AgentResponse(data)
       IN  /\ stages' = Append(stages, [stage |-> "construct", ok |-> r.ok])
           /\ IF r.ok
              THEN /\ Return(r.r)
                   /\ UNCHANGED e
              ELSE /\ e' = "ValidationError"
                   /\ pc' = "extract_patch"
                   /\ UNCHANGED <<response, files_left>>
    /\ UNCHANGED <<config, api_key, text, candidates, status, json_text, data,
                   patch_text, patch_error, blocks, queue, executed, errors,
                   patch_calls, tmp_files, spawned, running, written, skipped,
                   reports, log_records,
                   visited>>
    /\ UNCHANGED bench

\* lines 500-501 and 525-526: patch_text = _extract_patch(text); if patch_text:
ExtractPatch ==
    /\ pc = "extract_patch"
    /\ patch_text' = _extract_patch(text)
    /\ pc' = IF Truthy(patch_text') THEN "apply_patch" ELSE "commands"
    /\ UNCHANGED <<config, api_key, text, candidates, status, json_text, data, e,
                   patch_error, blocks, queue, executed, errors, response, files_left,
                   stages, patch_calls, tmp_files, spawned, running, written, skipped,
                   reports, log_records,
                   visited>>
    /\ UNCHANGED bench

\* lines 398-404 without the test for an empty patch
WritePatchFileUnchecked ==
    /\ pc = "apply_patch"
    /\ tmp_files' = tmp_files + 1
    /\ \/ /\ patch_error' = "write failed"
          /\ stages' = Append(stages, [stage |-> "patch", ok |-> FALSE])
          /\ pc' = "commands"
       \/ /\ pc' = "run_patch"
          /\ UNCHANGED <<patch_error, stages>>
    /\ UNCHANGED <<config, api_key, text, candidates, status, json_text, data, e,
                   patch_text, blocks, queue, executed, errors, response, files_left,
                   patch_calls, spawned, running, written, skipped, reports,
                   log_records, visited>>
    /\ UNCHANGED bench

\* _apply_patch, lines 398-404: the patch is sanitized and written to a
\* temporary file; an empty patch and a failed write raise
WritePatchFile ==
    /\ pc = "apply_patch"
    /\ \/ /\ _sanitize_patch(patch_text.s) = <<>>
          /\ patch_error' = "patch sanitized to empty"
          /\ stages' = Append(stages, [stage |-> "patch", ok |-> FALSE])
          /\ pc' = "commands"
          /\ UNCHANGED tmp_files
       \/ /\ _sanitize_patch(patch_text.s) # <<>>
          /\ tmp_files' = tmp_files + 1
          /\ \/ /\ patch_error' = "write failed"
                /\ stages' = Append(stages, [stage |-> "patch", ok |-> FALSE])
                /\ pc' = "commands"
             \/ /\ pc' = "run_patch"
                /\ UNCHANGED <<patch_error, stages>>
    /\ UNCHANGED <<config, api_key, text, candidates, status, json_text, data, e,
                   patch_text, blocks, queue, executed, errors, response, files_left,
                   patch_calls, spawned, running, written, skipped, reports,
                   log_records,
                   visited>>
    /\ UNCHANGED bench

\* the outcomes of subprocess.run(["patch", ...]): it cannot be spawned, or it
\* exits with status 0, or with another status and with or without stderr text
PatchOutcomes == {"spawn failed", "exit 0", "patch stderr", "patch failed"}

\* lines 405-419 and 503-508 / 528-533 without the return after a successful
\* patch: the call goes on to the command pass whatever the patch tool said
RunPatchThenCommands ==
    /\ pc = "run_patch"
    /\ \E outcome \in PatchOutcomes :
          /\ patch_calls' =
                 IF outcome = "spawn failed" THEN patch_calls
                 ELSE Append(patch_calls,
                             [strip |-> StripDepth(_sanitize_patch(patch_text.s)),
                              patch |-> _sanitize_patch(patch_text.s)])
          /\ tmp_files' = tmp_files - 1
          /\ stages' = Append(stages, [stage |-> "patch", ok |-> outcome = "exit 0"])
          /\ IF outcome = "exit 0"
             THEN /\ status' = [status EXCEPT !.patch_applied = TRUE,
                                              !.actionable_output = TRUE]
                  /\ UNCHANGED patch_error
             ELSE /\ patch_error' = outcome
                  /\ UNCHANGED status
          /\ pc' = "commands"
          /\ UNCHANGED <<response, files_left>>
    /\ UNCHANGED <<config, api_key, text, candidates, json_text, data, e, patch_text,
                   blocks, queue, executed, errors, spawned, running, written,
                   skipped, reports, log_records,
                   visited>>
    /\ UNCHANGED bench

\* _apply_patch, lines 405-419, and its caller's lines 503-508 / 528-533
RunPatch ==
    /\ pc = "run_patch"
    /\ \E outcome \in PatchOutcomes :
          /\ patch_calls' =
                 IF outcome = "spawn failed" THEN patch_calls
                 ELSE Append(patch_calls,
                             [strip |-> StripDepth(_sanitize_patch(patch_text.s)),
                              patch |-> _sanitize_patch(patch_text.s)])
          /\ tmp_files' = tmp_files - 1
          /\ stages' = Append(stages, [stage |-> "patch", ok |-> outcome = "exit 0"])
          /\ IF outcome = "exit 0"
             THEN /\ status' = [status EXCEPT !.patch_applied = TRUE,
                                              !.actionable_output = TRUE]
                  /\ Return(EmptyResponse(NoneStr))
                  /\ UNCHANGED patch_error
             ELSE /\ patch_error' = outcome
                  /\ pc' = "commands"
                  /\ UNCHANGED <<status, response, files_left>>
    /\ UNCHANGED <<config, api_key, text, candidates, json_text, data, e, patch_text,
                   blocks, queue, executed, errors, spawned, running, written,
                   skipped, reports, log_records,
                   visited>>
    /\ UNCHANGED bench

\* lines 509-549 without the assignments to status["error"]
AfterCommandsNoError(n, errs) ==
    /\ status' = [status EXCEPT
                    !.commands_executed = n,
                    !.commands_errors = Len(errs),
                    !.actionable_output = IF n # 0 THEN TRUE ELSE @]
    /\ Return(EmptyResponse(IF n # 0 THEN SummaryExecuted ELSE SummaryError))

\* lines 509-516, 517-524, 534-541 and 542-549: the status and the response
\* after _execute_action_commands returned n successes and errs
AfterCommands(n, errs) ==
    /\ status' = [status EXCEPT
                    !.commands_executed = n,
                    !.commands_errors = Len(errs),
                    !.actionable_output = IF n # 0 THEN TRUE ELSE @,
                    !.error = IF n # 0 THEN @
                              ELSE IF patch_error # "None" THEN patch_error
                              ELSE IF e # "None" THEN e
                              ELSE "Failed to parse model response"]
    /\ Return(EmptyResponse(IF n # 0 THEN SummaryExecuted ELSE SummaryError))

\* _execute_action_commands, lines 333-343
StartCommands ==
    /\ pc = "commands"
    /\ blocks' = ActionBlocksFor(text, candidates)
    /\ stages' = Append(stages, [stage |-> "commands", ok |-> blocks' # <<>>])
    /\ executed' = 0
    /\ visited' = <<>>
    /\ IF blocks' = <<>>
       THEN /\ errors' = <<[kind |-> "no action blocks found", text |-> <<>>]>>
            /\ AfterCommands(0, errors')
            /\ UNCHANGED queue
       ELSE /\ errors' = <<>>
            /\ queue' = CommandsOf(blocks')
            /\ pc' = "cmd_loop"
            /\ UNCHANGED <<status, response, files_left>>
    /\ UNCHANGED <<config, api_key, text, candidates, json_text, data, e, patch_text,
                   patch_error, patch_calls, tmp_files, spawned, running, written,
                   skipped, reports, log_records>>
    /\ UNCHANGED bench

\* lines 346-348 with break in place of continue: a rejected command ends
\* the pass
BlockCommandAndStop ==
    /\ pc = "cmd_loop"
    /\ queue # <<>>
    /\ ~_is_allowed_command(Head(queue))
    /\ errors' = Append(errors, [kind |-> "blocked command", text |-> FirstLine200(Head(queue))])
    /\ queue' = <<>>
    /\ visited' = Append(visited, Head(queue))
    /\ UNCHANGED <<pc, config, api_key, text, candidates, status, json_text, data, e,
                   patch_text, patch_error, blocks, executed, response, files_left,
                   stages, patch_calls, tmp_files, spawned, running, written, skipped,
                   reports, log_records>>
    /\ UNCHANGED bench

\* lines 346-348: the gate rejects the next command
BlockCommand ==
    /\ pc = "cmd_loop"
    /\ queue # <<>>
    /\ ~_is_allowed_command(Head(queue))
    /\ errors' = Append(errors, [kind |-> "blocked command", text |-> FirstLine200(Head(queue))])
    /\ queue' = Tail(queue)
    /\ visited' = Append(visited, Head(queue))
    /\ UNCHANGED <<pc, config, api_key, text, candidates, status, json_text, data, e,
                   patch_text, patch_error, blocks, executed, response, files_left,
                   stages, patch_calls, tmp_files, spawned, running, written, skipped,
                   reports, log_records>>
    /\ UNCHANGED bench

\* lines 346-364 with a shell that is started and not waited for: the loop
\* goes on to the next command at once
SpawnCommandNoWait ==
    /\ pc = "cmd_loop"
    /\ queue # <<>>
    /\ _is_allowed_command(Head(queue))
    /\ LET cmd == _rewrite_command_paths(Head(queue), config.code_dir, config.issue_dir)
           proc == [cmd    |-> cmd,
                    source |-> Head(queue),
                    quiet  |-> SplitWS(Strip(cmd))[1] \in QUIET_COMMANDS]
       IN  /\ spawned' = Append(spawned, proc)
           /\ running' = running \cup {Len(spawned')}
           /\ executed' = executed + 1
           /\ queue' = Tail(queue)
           /\ visited' = Append(visited, Head(queue))
    /\ UNCHANGED <<pc, config, api_key, text, candidates, status, json_text, data, e,
                   patch_text, patch_error, blocks, errors, response, files_left,
                   stages, patch_calls, tmp_files, written, skipped, reports,
                   log_records>>
    /\ UNCHANGED bench

\* lines 346-364: the gate accepts the next command, its paths are rewritten
\* and subprocess.run starts the shell on it, or fails to (line 370)
SpawnCommand ==
    /\ pc = "cmd_loop"
    /\ queue # <<>>
    /\ _is_allowed_command(Head(queue))
    /\ LET cmd == _rewrite_command_paths(Head(queue), config.code_dir, config.issue_dir)
           proc == [cmd    |-> cmd,
                    source |-> Head(queue),
                    quiet  |-> SplitWS(Strip(cmd))[1] \in QUIET_COMMANDS]
       IN  \/ /\ errors' = Append(errors, [kind |-> "exception", text |-> <<>>])
              /\ queue' = Tail(queue)
              /\ visited' = Append(visited, Head(queue))
              /\ UNCHANGED <<pc, spawned, running>>
           \/ /\ spawned' = Append(spawned, proc)
              /\ running' = running \cup {Len(spawned')}
              /\ pc' = "wait"
              /\ UNCHANGED <<errors, queue, visited>>
    /\ UNCHANGED <<config, api_key, text, candidates, status, json_text, data, e,
                   patch_text, patch_error, blocks, executed, response, files_left,
                   stages, patch_calls, tmp_files, written, skipped, reports,
                   log_records>>
    /\ UNCHANGED bench

\* the outcomes of a spawned command: exit status 0, another exit status, or
\* no exit within CommandTimeout (TimeoutExpired, after the child is killed)
CommandOutcomes == {"exit 0", "command failed", "timeout"}

\* lines 355-371 with executed += 1 moved out of the else branch: a command
\* that exits non-zero is counted as executed as well
FinishCommandCountAll ==
    /\ pc = "wait"
    /\ \E outcome \in CommandOutcomes :
          /\ executed' = IF outcome = "timeout" THEN executed ELSE executed + 1
          /\ errors' = IF outcome = "exit 0" THEN errors
                       ELSE IF outcome = "timeout"
                       THEN Append(errors, [kind |-> "exception", text |-> <<>>])
                       ELSE Append(errors, [kind |-> "command failed", text |-> <<>>])
    /\ running' = {}
    /\ queue' = Tail(queue)
    /\ visited' = Append(visited, Head(queue))
    /\ pc' = "cmd_loop"
    /\ UNCHANGED <<config, api_key, text, candidates, status, json_text, data, e,
                   patch_text, patch_error, blocks, response, files_left, stages,
                   patch_calls, tmp_files, spawned, written, skipped, reports,
                   log_records>>
    /\ UNCHANGED bench

\* lines 355-371: subprocess.run returns or raises TimeoutExpired
FinishCommand ==
    /\ pc = "wait"
    /\ \E outcome \in CommandOutcomes :
          /\ executed' = IF outcome = "exit 0" THEN executed + 1 ELSE executed
          /\ errors' = IF outcome = "exit 0" THEN errors
                       ELSE IF outcome = "timeout"
                       THEN Append(errors, [kind |-> "exception", text |-> <<>>])
                       ELSE Append(errors, [kind |-> "command failed", text |-> <<>>])
    /\ running' = {}
    /\ queue' = Tail(queue)
    /\ visited' = Append(visited, Head(queue))
    /\ pc' = "cmd_loop"
    /\ UNCHANGED <<config, api_key, text, candidates, status, json_text, data, e,
                   patch_text, patch_error, blocks, response, files_left, stages,
                   patch_calls, tmp_files, spawned, written, skipped, reports,
                   log_records>>
    /\ UNCHANGED bench

\* lines 372-376 and the caller's lines after the call: the loops are over
EndCommands ==
    /\ pc = "cmd_loop"
    /\ queue = <<>>
    /\ AfterCommands(executed, errors)
    /\ UNCHANGED <<config, api_key, text, candidates, json_text, data, e, patch_text,
                   patch_error, blocks, queue, executed, errors, stages, patch_calls,
                   tmp_files, spawned, running, written, skipped, reports,
                   log_records,
                   visited>>
    /\ UNCHANGED bench

\* rel_path of line 566: change.path.strip().lstrip("/")
RelPath(path) == LStripChar(Strip(path), "/")

\* run_agent, lines 565-572: one iteration of the file-change loop
ApplyChange ==
    /\ pc = "returned"
    /\ files_left # <<>>
    /\ LET change   == Head(files_left)
           rel_path == RelPath(change.path)
       IN  IF ~StartsWith(rel_path, RtlPrefix)
           THEN /\ skipped' = Append(skipped, change.path)
                /\ UNCHANGED written
           ELSE /\ written' = Append(written, [change |-> change.path,
                                               target |-> PathJoin(config.code_dir, rel_path)])
                /\ UNCHANGED skipped
    /\ files_left' = Tail(files_left)
    /\ UNCHANGED <<pc, config, api_key, text, candidates, status, json_text, data, e,
                   patch_text, patch_error, blocks, queue, executed, errors, response,
                   stages, patch_calls, tmp_files, spawned, running, reports,
                   log_records,
                   visited>>
    /\ UNCHANGED bench

\* run_agent, lines 574-587: the execution marker, the summary document when
\* the response has a summary, the status document
WriteReport ==
    /\ pc = "returned"
    /\ files_left = <<>>
    /\ reports' = {"agent_executed.txt", "agent_status.json"}
                  \cup (IF Truthy(response.summary) THEN {"agent_report.md"} ELSE {})
    /\ pc' = "done"
    /\ UNCHANGED <<config, api_key, text, candidates, status, json_text, data, e,
                   patch_text, patch_error, blocks, queue, executed, errors, response,
                   files_left, stages, patch_calls, tmp_files, spawned, running,
                   written, skipped, log_records,
                   visited>>
    /\ UNCHANGED bench

Next ==
    \/ GetClient
    \/ GenerateContent
    \/ LogStep
    \/ ExtractJson
    \/ LoadJson
    \/ Construct
    \/ ExtractPatch
    \/ WritePatchFile
    \/ RunPatch
    \/ StartCommands
    \/ BlockCommand
    \/ SpawnCommand
    \/ FinishCommand
    \/ EndCommands
    \/ ApplyChange
    \/ WriteReport

Spec == Init /\ [][Next]_vars

----------------------------------------------------------------------------
(* Properties of the interpretation call                                   *)

\* ---------------------------------------------------------------------------
\* The text functions applied on their own: one call of one function on an
\* argument drawn from a bounded set, outside a call of _call_llm.
\* ---------------------------------------------------------------------------

\* every string over chars of length at most n
StringsOver(chars, n) == UNION {[1..k -> chars] : k \in 0..n}

\* the characters the splitter tells apart: an ordinary one, a blank, the two
\* quotes, the backslash and the line end
SplitChars == {"a", " ", "\"", "'", "\\", "\n"}

MaxBlockLen == 5

SplitBlocks == StringsOver(SplitChars, MaxBlockLen)

\* every concatenation of at most n of the pieces
RECURSIVE Concats(_, _)
Concats(pieces, n) ==
    IF n = 0 THEN {<<>>}
    ELSE LET shorter == Concats(pieces, n - 1)
         IN  shorter \cup {s \o p : s \in shorter, p \in pieces}

\* pieces of a command line: the four placeholders, a path suffix, and what
\* may stand before a placeholder (a command word with its blank, an
\* assignment, a letter of the pattern's class, an ordinary letter)
RewritePieces ==
    {PhCodeRundir, PhCode, PhSrc, PhRundir,
     <<"/", "o", "u", "t", ".", "l", "o", "g">>,
     <<"l", "s", " ">>, <<"x", "=">>, <<"s">>, <<"a">>}

MaxPieces == 3

RewriteCommands == Concats(RewritePieces, MaxPieces)

\* CVDP_CODE_DIR and CVDP_ISSUE_DIR at their default
DefaultConfig == [code_dir |-> DirCode, issue_dir |-> DirCode]

\* '/w'
DirPlain == <<"/", "w">>

\* '/i'
DirPlainIssue == <<"/", "i">>

\* the directories of a call of _rewrite_command_paths: the default, a code
\* directory that holds "/code" with CVDP_ISSUE_DIR unset, an issue directory
\* that holds "/src", and two directories that hold no placeholder
RewriteConfigs ==
    {DefaultConfig,
     [code_dir |-> DirWork, issue_dir |-> DirWork],
     [code_dir |-> DirWork, issue_dir |-> DirIssue],
     [code_dir |-> DirPlain, issue_dir |-> DirPlainIssue]}

\* every text of at most n of the lines, each line ended by a line end
RECURSIVE LinesOf(_, _)
LinesOf(lines, n) ==
    IF n = 0 THEN {<<>>}
    ELSE LET shorter == LinesOf(lines, n - 1)
         IN  shorter \cup {s \o l \o NL : s \in shorter, l \in lines}

\* lines of a diff candidate: prose, the two file headers, a diff header, a
\* hunk header, an added, a removed and a context line, and a fence
PatchLines ==
    {<<"h", "e", "l", "l", "o">>,
     MinusHdr \o <<"a">>,
     PlusHdr \o <<"b">>,
     DiffHdr \o <<"a">>,
     HunkHdr \o <<"-", "1", " ", "+", "1", " ", "@", "@">>,
     <<"+", "y">>,
     <<"-", "x">>,
     <<" ", "c">>,
     Fence}

MaxPatchLines == 3

PatchTexts == LinesOf(PatchLines, MaxPatchLines)

\* 'Action: ls '
LineActionLs == <<"A", "c", "t", "i", "o", "n", ":", " ", "l", "s", " ">>

\* 'pwd'
LinePwd == <<"p", "w", "d">>

\* 'Observation: o'
LineObservation == <<"O", "b", "s", "e", "r", "v", "a", "t", "i", "o", "n", ":", " ", "o">>

\* lines of a narrative: action lines with text after the colon, without a
\* colon, indented with two colons, the four section markers, a command line,
\* a line with a colon and a blank line
NarrativeLines ==
    {LineActionLs,
     <<"A", "C", "T", "I", "O", "N">>,
     <<" ", "a", "c", "t", "i", "o", "n", "s", ":", "a", ":", "b">>,
     <<"T", "h", "o", "u", "g", "h", "t", ":", " ", "t">>,
     LineObservation,
     <<" ", "F", "i", "n", "a", "l">>,
     <<"p", "a", "t", "c", "h", " ", "x">>,
     LinePwd,
     <<"x", ":", " ", "y">>,
     <<" ">>}

MaxNarrativeLines == 3

Narratives == LinesOf(NarrativeLines, MaxNarrativeLines)

\* a fenced block: the opening fence line, the body, the closing fence line
FencedBlock(open, body) == open \o NL \o body \o NL \o Fence \o NL

\* the two file header lines of a diff of file x to file y
DiffBody(x, y) == MinusHdr \o <<x>> \o NL \o PlusHdr \o <<y>>

\* pieces of a response text around a fenced diff: a fenced diff under each of
\* the three fence tags, a fenced note under the diff tag and under the bare
\* fence, a line of prose and a bullet line
ResponsePieces ==
    {FencedBlock(FenceDiff, DiffBody("a", "b")),
     FencedBlock(FencePatch, DiffBody("c", "d")),
     FencedBlock(Fence, DiffBody("e", "f")),
     FencedBlock(FenceDiff, Prose),
     FencedBlock(Fence, Prose),
     Prose \o NL,
     <<"-", " ", "d", "o", "n", "e">> \o NL}

MaxResponsePieces == 3

ResponseTexts == Concats(ResponsePieces, MaxResponsePieces)

\* '{"a":1}'
ObjA == <<"{", "\"", "a", "\"", ":", "1", "}">>

\* '{"b":2}'
ObjB == <<"{", "\"", "b", "\"", ":", "2", "}">>

\* pieces of a response text around a JSON candidate: a fenced block tagged
\* json, an untagged fenced note, an object on a line of its own, a line of
\* prose, and an opening json fence that nothing follows (a response cut off)
JsonPieces ==
    {FencedBlock(FenceJson, ObjA),
     FencedBlock(Fence, Prose),
     ObjB \o NL,
     Prose \o NL,
     FenceJson}

MaxJsonPieces == 3

JsonTexts == Concats(JsonPieces, MaxJsonPieces)

\* the variables of _call_llm a function call leaves alone
idle == <<config, api_key, text, candidates, status, json_text, data, e,
          patch_text, patch_error, blocks, queue, executed, errors, response,
          files_left, stages, patch_calls, tmp_files, spawned, running, written,
          skipped, reports, log_records, visited>>

\* no call of _call_llm under way
IdleInit ==
    /\ api_key = TRUE
    /\ text = <<>>
    /\ candidates = <<>>
    /\ status = InitialStatus
    /\ json_text = NoneStr
    /\ data = JLit(LitNull)
    /\ e = "None"
    /\ patch_text = NoneStr
    /\ patch_error = "None"
    /\ blocks = <<>>
    /\ queue = <<>>
    /\ executed = 0
    /\ errors = <<>>
    /\ response = EmptyResponse(NoneStr)
    /\ files_left = <<>>
    /\ stages = <<>>
    /\ patch_calls = <<>>
    /\ tmp_files = 0
    /\ spawned = <<>>
    /\ running = {}
    /\ written = <<>>
    /\ skipped = <<>>
    /\ reports = {}
    /\ log_records = 0
    /\ visited = <<>>

FnInit ==
    /\ pc = "bench"
    /\ IdleInit
    /\ out = <<>>
    /\ \/ /\ fn = "_split_commands"
          /\ arg \in SplitBlocks
          /\ config = DefaultConfig
       \/ /\ fn = "_rewrite_command_paths"
          /\ arg \in RewriteCommands
          /\ config \in RewriteConfigs
       \/ /\ fn = "_extract_action_blocks"
          /\ arg \in Narratives
          /\ config = DefaultConfig
       \/ /\ fn = "_extract_patch"
          /\ arg \in ResponseTexts
          /\ config = DefaultConfig
       \/ /\ fn = "_extract_json"
          /\ arg \in JsonTexts
          /\ config = DefaultConfig
       \/ /\ fn = "_sanitize_patch"
          /\ arg \in PatchTexts
          /\ config = DefaultConfig

\* commands = _split_commands(block)
ApplySplitCommands ==
    /\ pc = "bench"
    /\ fn = "_split_commands"
    /\ out' = _split_commands(arg)
    /\ pc' = "bench_done"
    /\ UNCHANGED <<fn, arg, idle>>

\* cmd = _rewrite_command_paths(cmd, code_dir)
ApplyRewriteCommandPaths ==
    /\ pc = "bench"
    /\ fn = "_rewrite_command_paths"
    /\ out' = _rewrite_command_paths(arg, config.code_dir, config.issue_dir)
    /\ pc' = "bench_done"
    /\ UNCHANGED <<fn, arg, idle>>

\* patch_text = _sanitize_patch(patch_text)
ApplySanitizePatch ==
    /\ pc = "bench"
    /\ fn = "_sanitize_patch"
    /\ out' = _sanitize_patch(arg)
    /\ pc' = "bench_done"
    /\ UNCHANGED <<fn, arg, idle>>

\* blocks = _extract_action_blocks(text)
ApplyExtractActionBlocks ==
    /\ pc = "bench"
    /\ fn = "_extract_action_blocks"
    /\ out' = _extract_action_blocks(arg)
    /\ pc' = "bench_done"
    /\ UNCHANGED <<fn, arg, idle>>

\* patch_text = _extract_patch(text)
ApplyExtractPatch ==
    /\ pc = "bench"
    /\ fn = "_extract_patch"
    /\ out' = _extract_patch(arg)
    /\ pc' = "bench_done"
    /\ UNCHANGED <<fn, arg, idle>>

\* json_text = _extract_json(text)
ApplyExtractJson ==
    /\ pc = "bench"
    /\ fn = "_extract_json"
    /\ out' = _extract_json(arg)
    /\ pc' = "bench_done"
    /\ UNCHANGED <<fn, arg, idle>>

FnNext ==
    \/ ApplyExtractJson
    \/ ApplyExtractPatch
    \/ ApplyExtractActionBlocks
    \/ ApplySplitCommands
    \/ ApplyRewriteCommandPaths
    \/ ApplySanitizePatch

FnSpec == FnInit /\ [][FnNext]_vars

\* _apply_patch called on its own on a non-empty diff candidate (its callers
\* test the candidate for truth, lines 502 and 527); an exception it raises
\* reaches the handler of its caller, which goes on to the command pass
ApplyPatchInit ==
    /\ pc = "apply_patch"
    /\ config \in Configs
    /\ api_key = TRUE
    /\ text = <<>>
    /\ candidates = <<>>
    /\ status = InitialStatus
    /\ json_text = NoneStr
    /\ data = JLit(LitNull)
    /\ e = "None"
    /\ patch_text \in {Some(t) : t \in PatchTexts \ {<<>>}}
    /\ patch_error = "None"
    /\ blocks = <<>>
    /\ queue = <<>>
    /\ executed = 0
    /\ errors = <<>>
    /\ response = EmptyResponse(NoneStr)
    /\ files_left = <<>>
    /\ stages = <<>>
    /\ patch_calls = <<>>
    /\ tmp_files = 0
    /\ spawned = <<>>
    /\ running = {}
    /\ written = <<>>
    /\ skipped = <<>>
    /\ reports = {}
    /\ log_records = 0
    /\ visited = <<>>
    /\ fn = "none"
    /\ arg = <<>>
    /\ out = <<>>

ApplyPatchNext ==
    \/ WritePatchFile
    \/ RunPatch

ApplyPatchSpec == ApplyPatchInit /\ [][ApplyPatchNext]_vars

\* the function fn has returned
Applied(name) == pc = "bench_done" /\ fn = name

\* the call has returned to run_agent
Returned == pc \in {"returned", "done"}

\* the stage names of the history, in order
StageNames == [i \in 1..Len(stages) |-> stages[i].stage]

\* the stage was attempted
Attempted(stage) == \E i \in 1..Len(stages) : stages[i].stage = stage

\* the first whitespace-delimited token of cmd (the empty string when cmd is blank)
FirstToken(cmd) ==
    LET from == SkipChars(cmd, 0, WS)
        ends == {j \in from..(Len(cmd) - 1) : cmd[j + 1] \in WS}
    IN  Slice(cmd, from, IF ends = {} THEN Len(cmd) ELSE Min(ends))

\* the first token of cmd is a name of the allow-list
OnAllowList(cmd) == FirstToken(cmd) \in ALLOWED_COMMANDS

\* the diagnostics of the gate
BlockedErrors == SelectSeq(errors, LAMBDA x : x.kind = "blocked command")

\* the commands dealt with that are not on the allow-list
DeniedCommands == SelectSeq(visited, LAMBDA c : ~OnAllowList(c))

CmdLsLa == <<"l", "s", " ", "-", "l", "a">>
CmdRmRf == <<"r", "m", " ", "-", "r", "f", " ", "/">>
CmdIverilog == <<"i", "v", "e", "r", "i", "l", "o", "g", " ", "-", "o", " ", "s", "i", "m", " ", "f", "i", "l", "e", ".", "v">>

\* C1: a shell is spawned only for a command whose first whitespace-delimited
\* token is a name of the allow-list; every other command the loop meets is
\* not spawned and adds exactly one "blocked command" diagnostic that holds
\* the first 200 characters, at most, of its first line; the empty command
\* and "rm -rf /" are denied, "ls -la" and "iverilog -o sim file.v" accepted.
C1_CommandGate ==
    /\ \A i \in 1..Len(spawned) : OnAllowList(spawned[i].source)
    /\ LET denied == DeniedCommands
           blocked == BlockedErrors
       IN  /\ Len(blocked) = Len(denied)
           /\ \A i \in 1..Len(denied) :
                 /\ blocked[i].text = Take(SplitLines(denied[i])[1], 200)
                 /\ Len(blocked[i].text) <= 200
    /\ ~_is_allowed_command(<<>>)
    /\ ~_is_allowed_command(CmdRmRf)
    /\ _is_allowed_command(CmdLsLa)
    /\ _is_allowed_command(CmdIverilog)

\* a pass is over in which "ls -la" was spawned, "rm -rf /" was denied and a
\* denied command with a first line of more than 200 characters was reported
C1_Witness ==
    /\ pc = "cmd_loop" /\ queue = <<>>
    /\ \E i \in 1..Len(spawned) : spawned[i].source = CmdLsLa
    /\ \E i \in 1..Len(BlockedErrors) : BlockedErrors[i].text = CmdRmRf
    /\ \E i \in 1..Len(DeniedCommands) :
          /\ Len(SplitLines(DeniedCommands[i])[1]) > 200
          /\ Len(BlockedErrors[i].text) = 200
    /\ \A i \in 1..Len(spawned) : spawned[i].source # CmdRmRf

\* the segments of a path: the pieces between its slashes
RECURSIVE PathSegments(_)
PathSegments(p) ==
    LET k == Find(p, <<"/">>)
    IN  IF k = -1 THEN <<p>> ELSE <<Take(p, k)>> \o PathSegments(Drop(p, k + 1))

\* the segments a path resolves to: empty and "." segments are dropped, ".."
\* removes the segment before it
RECURSIVE Resolve(_, _)
Resolve(segs, acc) ==
    IF segs = <<>> THEN acc
    ELSE IF Head(segs) \in {<<>>, <<".">>} THEN Resolve(Tail(segs), acc)
    ELSE IF Head(segs) = <<".", ".">>
    THEN Resolve(Tail(segs), IF acc = <<>> THEN acc ELSE SubSeq(acc, 1, Len(acc) - 1))
    ELSE Resolve(Tail(segs), Append(acc, Head(segs)))

\* target resolves to a location under the editable root <code_dir>/rtl/
UnderEditableRoot(target, code_dir) ==
    LET root == Resolve(PathSegments(code_dir), <<>>) \o <<<<"r", "t", "l">>>>
        where == Resolve(PathSegments(target), <<>>)
    IN  Len(where) > Len(root) /\ SubSeq(where, 1, Len(root)) = root

\* C2: every file the file-change loop writes resolves to a location under
\* the editable root <code_dir>/rtl/, and a change whose path resolves
\* outside that subtree is dropped.
C2_Confined ==
    /\ \A i \in 1..Len(written) : UnderEditableRoot(written[i].target, config.code_dir)
    /\ \A i \in 1..Len(skipped) :
          ~UnderEditableRoot(PathJoin(config.code_dir, RelPath(skipped[i])), config.code_dir)

\* the place of a stage in the chain
StageRank(stage) ==
    CASE stage = "json" -> 1
      [] stage = "construct" -> 2
      [] stage = "patch" -> 3
      [] stage = "commands" -> 4

\* the stages attempted in order of rank and at most once, the construction
\* after a successful parse only, any other stage after failures only
StagesInOrder ==
    /\ \A i, j \in 1..Len(stages) :
          i < j => StageRank(stages[i].stage) < StageRank(stages[j].stage)
    /\ \A i \in 1..(Len(stages) - 1) :
          stages[i].ok <=> (stages[i].stage = "json" /\ stages[i + 1].stage = "construct")
    /\ Attempted("construct") => Attempted("json")
    /\ Len(patch_calls) <= 1

\* a step that attempts a stage attempts it on the candidate extracted from
\* the response text, and attempts the patch or the command pass only when no
\* earlier stage is left untried on a candidate the text holds; no step after
\* the request changes the response
StageStep ==
    /\ pc # "request" => text' = text /\ candidates' = candidates
    /\ stages' # stages =>
          LET stage == stages'[Len(stages')].stage
          IN  /\ stages' = Append(stages, stages'[Len(stages')])
              /\ stage \in {"json", "construct"} =>
                    json_text = _extract_json(text) /\ Truthy(json_text)
              /\ stage \in {"patch", "commands"} =>
                    Attempted("json") \/ ~Truthy(_extract_json(text))
              /\ stage = "patch" =>
                    patch_text = _extract_patch(text) /\ Truthy(patch_text)
              /\ stage = "commands" =>
                    /\ blocks' = ActionBlocksFor(text, candidates)
                    /\ Attempted("patch") \/ ~Truthy(_extract_patch(text))

\* C3: the stages of one interpretation are attempted in the order JSON
\* parse, file-change construction, patch, command pass, each at most once
\* and each on the candidate extracted from the one response text; the
\* construction follows a successful parse only, and the patch and the
\* command pass are attempted only after every earlier stage missed (its
\* candidate is absent from the text) or failed.
C3_FallbackChain == []StagesInOrder /\ [][StageStep]_vars

\* all four stages were attempted, in turn: the JSON parsed, the construction
\* failed, the patch failed, the command pass found commands
C3_Witness ==
    /\ StageNames = <<"json", "construct", "patch", "commands">>
    /\ stages[1].ok /\ ~stages[2].ok /\ ~stages[3].ok /\ stages[4].ok
    /\ Len(patch_calls) = 1

\* C4: no sub-step of the interpretation call raises out of it: the call
\* never ends with an exception in place of a response and a status.
C4_NeverRaises == pc # "raised"

\* C5: in the status the call returns, actionable_output is true exactly when
\* the call produced a structured file-change object, applied a patch or
\* ran at least one command with success, and a status with an error has
\* actionable_output false.
C5_Actionable ==
    Returned =>
        /\ status.actionable_output <=>
              \/ \E i \in 1..Len(stages) : stages[i].stage = "construct" /\ stages[i].ok
              \/ status.patch_applied
              \/ status.commands_executed > 0
        /\ status.error # "None" => ~status.actionable_output

\* the commands of the action blocks, block by block
RECURSIVE FlattenBlocks(_)
FlattenBlocks(bs) ==
    IF bs = <<>> THEN <<>>
    ELSE FlattenBlocks(SubSeq(bs, 1, Len(bs) - 1)) \o _split_commands(bs[Len(bs)])

\* every command dealt with has added one success or one failure, and every
\* command on the allow-list among them was started or failed to start; the
\* status of a pass reports the successes and the failures of all of them
OneOutcomeEach ==
    /\ pc \in {"cmd_loop", "wait"} =>
          /\ executed + Len(errors) = Len(visited)
          /\ Len(SelectSeq(visited, OnAllowList)) =
                 executed + Len(errors) - Len(BlockedErrors)
    /\ (Returned /\ Attempted("commands") /\ blocks # <<>>) =>
          /\ queue = <<>>
          /\ status.commands_executed + status.commands_errors = Len(visited)
          /\ status.commands_executed > 0 => status.actionable_output
          /\ (Len(visited) = 5 /\ status.commands_errors = 2) =>
                 (status.commands_executed = 3 /\ status.actionable_output)

\* the pass starts on all commands of all blocks, a step of the loops deals
\* with the next command and keeps the later ones, whatever the outcome,
\* and the pass ends only when none is left
NoCommandDropped ==
    /\ (pc = "commands" /\ pc' = "cmd_loop") =>
          (visited' = <<>> /\ queue' = FlattenBlocks(blocks'))
    /\ pc \in {"cmd_loop", "wait"} => visited' \o queue' = visited \o queue
    /\ (pc = "cmd_loop" /\ pc' = "returned") => queue = <<>>

\* C6: a command that is rejected by the gate, exits non-zero, times out or
\* fails to start records one failure and does not stop the pass: every
\* later command of the same and of later blocks is still gated and, if
\* allowed, started; a narrative of five commands of which two fail reports
\* commands_executed = 3 and actionable_output = true.
C6_BestEffort == []OneOutcomeEach /\ [][NoCommandDropped]_vars

CmdEchoHi == <<"e", "c", "h", "o", " ", "h", "i">>

\* a pass over five commands has returned: two were rejected, the three
\* others ran with success, the last of them after both failures
C6_Witness ==
    /\ Returned
    /\ Len(visited) = 5
    /\ status.commands_executed = 3
    /\ status.commands_errors = 2
    /\ status.actionable_output
    /\ Len(BlockedErrors) = 2
    /\ spawned[Len(spawned)].source = CmdEchoHi
    /\ visited[5] = CmdEchoHi

\* at most one shell is running, and only while the loop waits for it
OneAtATime ==
    /\ Cardinality(running) <= 1
    /\ running # {} => (pc = "wait" /\ running = {Len(spawned)})
    /\ pc = "wait" => (running # {} /\ spawned[Len(spawned)].source = Head(queue))

\* the pass takes the blocks in their order in the text and the commands of
\* a block in the splitter's order; a step of the loops deals with the first
\* command not yet dealt with, starts a shell for no other command, and
\* starts it only when no shell is running
InTextOrder ==
    /\ (pc = "commands" /\ pc' = "cmd_loop") =>
          /\ blocks' = ActionBlocksFor(text, candidates)
          /\ queue' = FlattenBlocks(blocks')
    /\ pc \in {"cmd_loop", "wait"} =>
          /\ visited' \o queue' = visited \o queue
          /\ Len(visited') <= Len(visited) + 1
    /\ spawned' # spawned =>
          /\ running = {}
          /\ spawned' = Append(spawned, spawned'[Len(spawned')])
          /\ spawned'[Len(spawned')].source = Head(queue)
          /\ queue' = queue
    /\ visited' # visited => running' = {}

\* C7: the commands of one narrative run one at a time, in the order in which
\* the response text presents them (blocks in order of occurrence, commands
\* of a block in the splitter's order): no command starts before the one
\* before it has finished, failed or timed out, and none is reordered.
C7_Sequential == []OneAtATime /\ [][InTextOrder]_vars

CmdLsRundir == <<"l", "s", " ", "/", "r", "u", "n", "d", "i", "r">>

\* the third shell of a pass is running: the first ran "ls /rundir", one that
\* ran before it did not end with success, and two commands were rejected
C7_Witness ==
    /\ pc = "wait"
    /\ Len(spawned) = 3
    /\ running = {3}
    /\ spawned[1].source = CmdLsRundir
    /\ spawned[3].source = CmdEchoHi
    /\ Len(BlockedErrors) = 2
    /\ \E i \in 1..Len(errors) : errors[i].kind \in {"exception", "command failed"}

\* the whole text is a JSON document that matches the file-change schema
WellFormedPayload(t) ==
    json_loads(t).ok /\ AgentResponse(json_loads(t).v).ok

\* C8: for a response text that is a well-formed JSON payload matching the
\* file-change schema, the call returns exactly that object's file changes
\* with parsed_json and actionable_output true, the patch collaborator is
\* not invoked and no command is started; for the payload with the single
\* file rtl/top.v exactly one file is written, under the editable root.
C8_StructuredPayload ==
    (Returned /\ log_records = 1 /\ WellFormedPayload(text)) =>
        /\ response = AgentResponse(json_loads(text).v).r
        /\ status.parsed_json
        /\ status.actionable_output
        /\ patch_calls = <<>>
        /\ spawned = <<>>
        /\ ~Attempted("patch") /\ ~Attempted("commands")
        /\ (text = JsonTop /\ pc = "done") =>
              /\ Len(written) = 1
              /\ UnderEditableRoot(written[1].target, config.code_dir)

\* the text is one fenced diff block: the diff fence, a body without fence
\* that starts with a "--- " line followed by a "+++ " line, the closing fence
IsFencedDiff(t) ==
    /\ StartsWith(t, FenceDiff \o NL \o MinusHdr)
    /\ EndsWith(t, NL \o Fence)
    /\ Len(t) > Len(FenceDiff) + Len(Fence) + 2
    /\ LET inner == Slice(t, Len(FenceDiff) + 1, Len(t) - Len(Fence) - 1)
           lines == SplitLines(inner)
       IN  /\ ~Contains(inner, Fence)
           /\ Len(lines) >= 2
           /\ StartsWith(lines[2], PlusHdr)

\* C9: for a response whose text is a fenced unified diff with valid headers,
\* whatever its body holds, and a patch collaborator that does not fail, the
\* collaborator is invoked exactly once, the returned status has
\* patch_applied true, the returned file-change list is empty, no file is
\* written and no command is started.
C9_FencedDiff ==
    (/\ Returned
     /\ log_records = 1
     /\ IsFencedDiff(text)
     /\ \A i \in 1..Len(stages) : stages[i].stage = "patch" => stages[i].ok) =>
        /\ Len(patch_calls) = 1
        /\ status.patch_applied
        /\ response.files = <<>>
        /\ written = <<>>
        /\ spawned = <<>>

\* the response holds no JSON candidate (no brace), no fenced block, no
\* "--- " or "+++ " header line, no action marker, and its raw form reports
\* no malformed call
NoCandidate ==
    /\ \A i \in 1..Len(candidates) : ~Contains(candidates[i], KwCall)
    /\ ~Contains(text, <<"{">>)
    /\ ~Contains(text, Fence)
    /\ ~Contains(NL \o text, NL \o MinusHdr)
    /\ ~Contains(NL \o text, NL \o PlusHdr)
    /\ ~Contains(Lower(text), KwAction)

\* C10: for a response text with no JSON candidate, no diff, no action marker
\* and no malformed-call report, the returned status has an error, with
\* actionable_output, parsed_json and patch_applied false and
\* commands_executed 0, and the call leaves the working tree alone: the
\* patch collaborator is not invoked, no command is started and the
\* file-change list is empty.
C10_NothingToDo ==
    (Returned /\ NoCandidate) =>
        /\ status.error # "None"
        /\ ~status.actionable_output
        /\ ~status.parsed_json
        /\ ~status.patch_applied
        /\ status.commands_executed = 0
        /\ patch_calls = <<>>
        /\ tmp_files = 0
        /\ spawned = <<>>
        /\ response.files = <<>>
        /\ written = <<>>

\* a call on the text "hello" has returned after its command pass found no
\* action block
C10_Witness ==
    /\ Returned
    /\ text = Prose
    /\ candidates = <<>>
    /\ stages = <<[stage |-> "commands", ok |-> FALSE]>>
    /\ status.error = "Failed to parse model response"
    /\ status.commands_errors = 1

\* C11: for the response "Action: ls -la" followed by an Observation line,
\* the only command the call ever deals with or starts is ls -la, started at
\* most once and with its output discarded (the quiet class), so the
\* Observation text is never executed; and when the call has returned from a
\* command pass without an error (the command exited 0), exactly one command
\* was executed, commands_executed is 1 and actionable_output is true.
C11_SingleAction ==
    text = ActLs =>
        /\ Len(spawned) <= 1
        /\ \A i \in 1..Len(spawned) :
              /\ spawned[i].source = CmdLsLa
              /\ spawned[i].cmd = CmdLsLa
              /\ spawned[i].quiet
        /\ \A i \in 1..Len(visited) : visited[i] = CmdLsLa
        /\ \A i \in 1..Len(queue) : queue[i] = CmdLsLa
        /\ (Returned /\ Attempted("commands") /\ status.commands_errors = 0) =>
              /\ visited = <<CmdLsLa>>
              /\ Len(spawned) = 1
              /\ running = {}
              /\ status.commands_executed = 1
              /\ status.actionable_output
              /\ status.error = "None"

\* the call on that response has returned after ls -la exited 0
C11_Witness ==
    /\ Returned
    /\ text = ActLs
    /\ stages = <<[stage |-> "commands", ok |-> TRUE]>>
    /\ status.commands_errors = 0
    /\ status.commands_executed = 1
    /\ Len(spawned) = 1
    /\ spawned[1].quiet

\* C12: every command _split_commands emits has balanced quoting (its quote
\* state, run over the whole command, is the balanced state) and its last
\* line does not end with a continuation backslash.
C12_EmittedComplete ==
    Applied("_split_commands") =>
        \A i \in 1..Len(out) :
            /\ _update_quote_state(out[i], "none") = "none"
            /\ ~EndsWith(out[i], <<"\\">>)

\* the quote state after the characters of s from index i on, entered in
\* state q: a backslash outside single quotes escapes the next character, a
\* quote opens or closes its own kind unless the other kind is open
RECURSIVE QuoteAfter(_, _, _)
QuoteAfter(s, i, q) ==
    IF i > Len(s) THEN q
    ELSE IF s[i] = "\\" /\ q # "single" THEN QuoteAfter(s, i + 2, q)
    ELSE IF s[i] = "'" /\ q = "none" THEN QuoteAfter(s, i + 1, "single")
    ELSE IF s[i] = "'" /\ q = "single" THEN QuoteAfter(s, i + 1, "none")
    ELSE IF s[i] = "\"" /\ q = "none" THEN QuoteAfter(s, i + 1, "double")
    ELSE IF s[i] = "\"" /\ q = "double" THEN QuoteAfter(s, i + 1, "none")
    ELSE QuoteAfter(s, i + 1, q)

\* the quote state after lines a..j, carried from line to line, line a entered
\* balanced
RECURSIVE QuoteAfterLines(_, _, _)
QuoteAfterLines(lines, a, j) ==
    IF j < a THEN "none"
    ELSE QuoteAfter(lines[j], 1, QuoteAfterLines(lines, a, j - 1))

\* a command that starts at line a is complete after line j
CompleteAt(lines, a, j) ==
    /\ QuoteAfterLines(lines, a, j) = "none"
    /\ ~EndsWith(RStrip(lines[j]), <<"\\">>)

\* the commands of lines a.. by the completion rule: a command starts at the
\* next non-blank line and ends at the first line after which it is complete;
\* what is left when the lines run out is the last command
RECURSIVE CommandsByRule(_, _)
CommandsByRule(lines, a) ==
    IF a > Len(lines) THEN <<>>
    ELSE IF Strip(lines[a]) = <<>> THEN CommandsByRule(lines, a + 1)
    ELSE LET ends == {j \in a..Len(lines) : CompleteAt(lines, a, j)}
             last == IF ends = {} THEN Len(lines) ELSE Min(ends)
         IN  <<Strip(Join(SubSeq(lines, a, last), NL))>> \o CommandsByRule(lines, last + 1)

ThreeLineQuoted == <<"\"", "\n", "a", "\n", "\"">>

\* C13: while lines of a block remain, _split_commands emits the buffer as a
\* command after a line exactly when the quote state after that line is
\* balanced and the line does not end with a continuation backslash, a
\* backslash escaping the next character only outside single quotes and the
\* quote state carrying from line to line: the commands returned are the
\* commands by that rule, and a three-line double-quoted command is returned
\* as one command holding all three lines.
C13_CompletionRule ==
    Applied("_split_commands") =>
        /\ out = CommandsByRule(SplitLines(arg), 1)
        /\ arg = ThreeLineQuoted => out = <<ThreeLineQuoted>>

\* the three-line double-quoted command has been split into one command
C13_Witness ==
    /\ Applied("_split_commands")
    /\ arg = ThreeLineQuoted
    /\ Len(SplitLines(arg)) = 3
    /\ out = <<arg>>

\* the 0-based indices at which part occurs in s
Occurrences(s, part) == {i \in 0..(Len(s) - Len(part)) : StartsWithAt(s, part, i)}

\* the run directory of the configuration
RunDir == PathJoin(config.issue_dir, NameRundir)

\* C14: a command that holds the compound placeholder /code/rundir once, and
\* no other placeholder, is rewritten to the text before the placeholder, the
\* configured run directory, and the text after it, whatever the code and
\* issue directories are: no later substitution touches what an earlier one
\* produced.
C14_CompoundPlaceholder ==
    (/\ Applied("_rewrite_command_paths")
     /\ Cardinality(Occurrences(arg, PhCode)) = 1
     /\ Occurrences(arg, PhCodeRundir) = Occurrences(arg, PhCode)
     /\ Occurrences(arg, PhRundir) = {i + Len(PhCode) : i \in Occurrences(arg, PhCode)}
     /\ Occurrences(arg, PhSrc) = {}) =>
        LET at == CHOOSE i \in Occurrences(arg, PhCodeRundir) : TRUE
        IN  out = Take(arg, at) \o RunDir \o Drop(arg, at + Len(PhCodeRundir))

\* the standalone placeholder at 0-based index i of cmd is at the start of the
\* command, or follows whitespace or "="
StandaloneAt(cmd, i) ==
    /\ StartsWithAt(cmd, PhRundir, i)
    /\ i = 0 \/ cmd[i] \in WS \cup {"="}

\* cmd from 0-based index i on, with every standalone placeholder replaced by
\* rundir and everything else kept
RECURSIVE StandaloneReplaced(_, _, _)
StandaloneReplaced(cmd, i, rundir) ==
    IF i >= Len(cmd) THEN <<>>
    ELSE IF StandaloneAt(cmd, i)
    THEN rundir \o StandaloneReplaced(cmd, i + Len(PhRundir), rundir)
    ELSE <<cmd[i + 1]>> \o StandaloneReplaced(cmd, i + 1, rundir)

\* C15: in a command without /code and /src, the standalone placeholder
\* /rundir is replaced by the configured run directory exactly where it is at
\* the start of the command or follows whitespace or "=", the character
\* before it is kept, and the rest of the command is left as it was.
C15_StandalonePlaceholder ==
    (/\ Applied("_rewrite_command_paths")
     /\ Occurrences(arg, PhCode) = {}
     /\ Occurrences(arg, PhSrc) = {}) =>
        out = StandaloneReplaced(arg, 0, RunDir)

\* the indices of the lines that start with "diff " or "--- "
HeaderLines(lines) ==
    {i \in 1..Len(lines) : StartsWith(lines[i], DiffHdr) \/ StartsWith(lines[i], MinusHdr)}

\* C16: every line of the string _sanitize_patch returns begins with one of
\* the permitted prefixes and none is a fence line; when prose precedes the
\* first "diff " or "--- " line of the input, the first line returned is that
\* header line and no more lines are returned than the input has from the
\* header on; and when no line of the input begins with a permitted prefix
\* the result is the empty string.
C16_SanitizedLines ==
    Applied("_sanitize_patch") =>
        LET given    == SplitLines(arg)
            returned == SplitLines(out)
            heads    == HeaderLines(given)
        IN  /\ \A i \in 1..Len(returned) :
                  /\ StartsWithAny(returned[i], ALLOWED_PREFIXES)
                  /\ ~StartsWith(returned[i], Fence)
            /\ (heads # {} /\ Min(heads) > 1) =>
                  /\ returned # <<>>
                  /\ returned[1] = given[Min(heads)]
                  /\ Len(returned) <= Len(given) - Min(heads) + 1
            /\ (\A i \in 1..Len(given) : ~StartsWithAny(given[i], ALLOWED_PREFIXES)) =>
                  out = <<>>

\* C17: the temporary file _apply_patch creates for the diff exists only
\* while _apply_patch runs: once it has ended, by a failure to write the
\* diff, a failure to start the patch tool, a non-zero exit or a success, no
\* temporary file is left.
C17_TempFileRemoved ==
    pc # "run_patch" => tmp_files = 0

\* _apply_patch has ended by raising
PatchFailed == stages = <<[stage |-> "patch", ok |-> FALSE]>>

\* at the end of _apply_patch, for a candidate that sanitizes to the empty
\* string: it has failed and the patch tool was not invoked; and after a
\* failure with the tool invoked the error is the tool's diagnostic output or
\* "patch failed"; after either failure patch_applied is false and the
\* command pass is next
PatchFailureHandled ==
    pc \notin {"apply_patch", "run_patch"} =>
        /\ _sanitize_patch(patch_text.s) = <<>> =>
              /\ PatchFailed
              /\ patch_error = "patch sanitized to empty"
              /\ patch_calls = <<>>
              /\ tmp_files = 0
        /\ (PatchFailed /\ patch_calls # <<>>) =>
              patch_error \in {"patch stderr", "patch failed"}
        /\ PatchFailed =>
              /\ patch_error # "None"
              /\ ~status.patch_applied
              /\ ~status.actionable_output
              /\ pc = "commands"

\* a step that ends _apply_patch by a failure leaves the response text, the
\* status and the response of the call as they were
FallsBackOnSameText ==
    (pc' = "commands" /\ pc # "commands") =>
        /\ text' = text
        /\ candidates' = candidates
        /\ status' = status
        /\ response' = response

\* C18: _apply_patch fails without invoking the patch tool when the sanitized
\* diff is empty, and fails with the tool's diagnostic output (or "patch
\* failed") when the tool exits non-zero; in both cases patch_applied stays
\* false and the engine goes on to the action-narrative stage for the same
\* response text.
C18_PatchFailure == []PatchFailureHandled /\ [][FallsBackOnSameText]_vars

\* _apply_patch has failed on a candidate that sanitizes to the empty string,
\* and the command pass is next
C18_Witness ==
    /\ pc = "commands"
    /\ Truthy(patch_text)
    /\ _sanitize_patch(patch_text.s) = <<>>
    /\ PatchFailed
    /\ patch_calls = <<>>

\* the trimmed lower-cased form of the line begins with "action"
OpensBlock(line) == StartsWith(Lower(Strip(line)), KwAction)

\* the trimmed lower-cased form of the line begins with "thought",
\* "observation", "final" or "patch"
ClosesBlock(line) ==
    \E kw \in {KwThought, KwObservation, KwFinal, KwPatch} :
        StartsWith(Lower(Strip(line)), kw)

\* the block opened by the action line i: the trimmed text after the first
\* colon of the line, if there is any, and every line after it up to the next
\* line that opens or closes a block; joined and trimmed
BlockOpenedAt(lines, i) ==
    LET marks == {k \in (i + 1)..Len(lines) : OpensBlock(lines[k]) \/ ClosesBlock(lines[k])}
        end   == IF marks = {} THEN Len(lines) ELSE Min(marks) - 1
        colon == Occurrences(lines[i], <<":">>)
        rest  == IF colon = {} THEN <<>> ELSE Strip(Drop(lines[i], Min(colon) + 1))
        first == IF rest = <<>> THEN <<>> ELSE <<rest>>
    IN  Strip(Join(first \o SubSeq(lines, i + 1, end), NL))

\* the non-empty blocks opened by the action lines i.., in order
RECURSIVE BlocksByRule(_, _)
BlocksByRule(lines, i) ==
    IF i > Len(lines) THEN <<>>
    ELSE IF OpensBlock(lines[i]) /\ BlockOpenedAt(lines, i) # <<>>
    THEN <<BlockOpenedAt(lines, i)>> \o BlocksByRule(lines, i + 1)
    ELSE BlocksByRule(lines, i + 1)

\* C19: _extract_action_blocks goes through the lines of the text in order: a
\* line whose trimmed lower-cased form begins with "action" opens a new block
\* (closing any open one) and contributes the text after its first colon as
\* the first content line; a line beginning with "thought", "observation",
\* "final" or "patch" closes the open block and is part of no block; every
\* other line inside an open block is appended to it; and no returned block
\* is empty.
C19_ActionBlocks ==
    Applied("_extract_action_blocks") =>
        /\ out = BlocksByRule(SplitLines(arg), 1)
        /\ \A i \in 1..Len(out) : out[i] # <<>>

\* the narrative 'Action: ls ', 'pwd', 'Observation: o' has given the one
\* block 'ls', 'pwd'
C19_Witness ==
    /\ Applied("_extract_action_blocks")
    /\ arg = LineActionLs \o NL \o LinePwd \o NL \o LineObservation \o NL
    /\ out = << <<"l", "s">> \o NL \o LinePwd >>

\* the indices of the fence lines of a text, in order
FenceLines(lines) ==
    SelectSeq([i \in 1..Len(lines) |-> i], LAMBDA i : StartsWith(lines[i], Fence))

\* the body of the k-th fenced block: the lines between its opening fence
\* line, the (2k-1)-th fence line, and its closing one, the 2k-th
FencedBody(lines, k) ==
    LET fl == FenceLines(lines)
    IN  Strip(Join(SubSeq(lines, fl[2 * k - 1] + 1, fl[2 * k] - 1), NL))

\* the fenced blocks tagged diff, patch or unlabeled whose body begins with a
\* "--- " line and that are followed by more text
FencedDiffs(lines) ==
    LET fl == FenceLines(lines)
    IN  {k \in 1..(Len(fl) \div 2) :
            /\ lines[fl[2 * k - 1]] \in {FenceDiff, FencePatch, Fence}
            /\ StartsWith(FencedBody(lines, k), MinusHdr)
            /\ fl[2 * k] < Len(lines)}

\* C20: for a response text that holds a fenced block (tagged diff, patch or
\* unlabeled) whose body begins with a "--- " line and that is followed by
\* narrative, _extract_patch returns exactly the body of the first such block,
\* with none of the narrative around it, whatever fenced blocks precede it.
C20_FirstFencedDiff ==
    Applied("_extract_patch") =>
        LET lines == SplitLines(arg)
        IN  FencedDiffs(lines) # {} =>
                out = Some(FencedBody(lines, Min(FencedDiffs(lines))))

\* C21: for each command of the splitter the path rewriter is applied first,
\* the gate is evaluated on the rewritten command and the executor runs last:
\* the string the gate approved (the command as the loop took it from the
\* splitter) is the string handed to the shell.
C21_GateSeesExecutedString ==
    \A i \in 1..Len(spawned) : spawned[i].cmd = spawned[i].source

\* the call ended by returning the structured file-change object
ReturnedStructured ==
    /\ Returned
    /\ stages # <<>>
    /\ stages[Len(stages)] = [stage |-> "construct", ok |-> TRUE]

\* C22: in the status the call returns, parsed_json is true only if the call
\* ended by returning the structured file-change object; when it ended through
\* the diff stage, the command stage or a total failure (the JSON text parsed
\* but the construction of the file-change object failed included),
\* parsed_json is false.
C22_ParsedOnlyWhenStructured ==
    Returned => (status.parsed_json => ReturnedStructured)

\* the fenced blocks of a text whose opening fence line is tagged json
FencedJsons(lines) ==
    LET fl == FenceLines(lines)
    IN  {k \in 1..(Len(fl) \div 2) : StartsWith(lines[fl[2 * k - 1]], FenceJson)}

\* the string s from its first "{" to its last "}", trimmed, if the last "}" is
\* after the first "{"
FirstToLastBrace(s) ==
    LET opens  == Occurrences(s, <<"{">>)
        closes == Occurrences(s, <<"}">>)
    IN  IF opens # {} /\ closes # {} /\ Max(closes) > Min(opens)
        THEN Some(Strip(SubSeq(s, Min(opens) + 1, Max(closes) + 1)))
        ELSE NoneStr

\* a candidate as its caller tells it: the empty string counts as none
Candidate(o) == IF Truthy(o) THEN o ELSE NoneStr

\* C23: the candidate _extract_json returns is the body of the first fenced
\* block tagged json when the text has one, otherwise the text from the first
\* "{" to the last "}", otherwise none.
C23_JsonCandidate ==
    Applied("_extract_json") =>
        LET lines == SplitLines(arg)
        IN  Candidate(out) =
                Candidate(IF FencedJsons(lines) # {}
                          THEN Some(FencedBody(lines, Min(FencedJsons(lines))))
                          ELSE FirstToLastBrace(arg))

\* the finish messages of the raw response that hold the token "call"
CallReports == {i \in 1..Len(candidates) : Occurrences(candidates[i], KwCall) # {}}

\* the trimmed text after the first "call" of the first such message
AfterCall ==
    LET msg == candidates[Min(CallReports)]
    IN  Strip(Drop(msg, Min(Occurrences(msg, KwCall)) + Len(KwCall)))

\* 'ls /src'
CmdLsSrc == <<"l", "s", " ", "/", "s", "r", "c">>

\* the step that enters the command pass takes the blocks the parser found
\* in the text, and only when it found none the one synthetic block made of
\* the text after "call"; the commands of the pass are the commands split from
\* these blocks, and a later step neither changes the blocks nor starts a
\* command other than the next of them, approved by the gate
MetadataStep ==
    /\ pc = "commands" =>
          LET parsed == _extract_action_blocks(text)
          IN  /\ parsed # <<>> => blocks' = parsed
              /\ (parsed = <<>> /\ CallReports # {} /\ AfterCall # <<>>) =>
                    blocks' = <<AfterCall>>
              /\ (parsed = <<>> /\ (CallReports = {} \/ AfterCall = <<>>)) =>
                    blocks' = <<>>
              /\ queue' = FlattenBlocks(blocks') \/ (blocks' = <<>> /\ queue' = queue)
    /\ pc \in {"cmd_loop", "wait"} =>
          /\ blocks' = blocks
          /\ queue' = queue \/ (queue # <<>> /\ queue' = Tail(queue))
          /\ spawned' # spawned =>
                /\ Len(spawned') = Len(spawned) + 1
                /\ spawned'[Len(spawned')].source = Head(queue)
                /\ _is_allowed_command(Head(queue))

\* C24: the finish messages of the raw response are consulted only when the
\* action block parser found no block; then, if a message holds the token
\* "call", the trimmed text after its first occurrence is the single
\* synthetic action block, split, gated and executed like a parsed block; and
\* when the parser found a block the text of the messages is never executed.
C24_MalformedCallFallback == [][MetadataStep]_vars

\* a call on the text "hello" with the finish message "malformed call ls /src"
\* has returned after running the one command of the synthetic block
C24_Witness ==
    /\ Returned
    /\ text = Prose
    /\ candidates = <<MalformedCall>>
    /\ blocks = <<CmdLsSrc>>
    /\ visited = <<CmdLsSrc>>
    /\ Len(spawned) = 1
    /\ status.commands_executed = 1

\* the counters while the pass runs and in the status it returns: the
\* successes and the diagnostics together number the commands dealt with, and
\* at the return none is left
CountersAddUp ==
    /\ pc \in {"cmd_loop", "wait"} => executed + Len(errors) = Len(visited)
    /\ (Returned /\ Attempted("commands") /\ blocks # <<>>) =>
          /\ queue = <<>>
          /\ executed + Len(errors) = Len(visited)
          /\ status.commands_executed = executed
          /\ status.commands_errors = Len(errors)

\* the pass starts with as many commands to deal with as the splitter gives
\* for all blocks; a step of the pass that deals with a command takes it from
\* those left and raises exactly one of the two counters by one
CountingStep ==
    /\ (pc = "commands" /\ pc' = "cmd_loop") =>
          /\ visited' = <<>>
          /\ Len(queue') = Len(FlattenBlocks(blocks'))
    /\ pc \in {"cmd_loop", "wait"} =>
          /\ blocks' = blocks
          /\ Len(visited') + Len(queue') = Len(visited) + Len(queue)
          /\ visited' # visited =>
                /\ Len(visited') = Len(visited) + 1
                /\ \/ executed' = executed + 1 /\ errors' = errors
                   \/ executed' = executed /\ Len(errors') = Len(errors) + 1

\* C25: when the command pass works on at least one action block, every
\* command the splitter gave for the blocks adds one unit to exactly one of
\* the two counters, so that on return executed + len(errors) is the number
\* of commands split from all blocks and the status has commands_executed +
\* commands_errors equal to it.
C25_CommandAccounting == []CountersAddUp /\ [][CountingStep]_vars

\* a pass over the five commands of one narrative has returned with three
\* successes and two diagnostics
C25_Witness ==
    /\ Returned
    /\ Attempted("commands")
    /\ blocks # <<>>
    /\ Len(visited) = 5
    /\ status.commands_executed = 3
    /\ status.commands_errors = 2

\* the lines of a text that are not blank, each trimmed
NonBlankLines(lines) ==
    LET kept == SelectSeq(lines, LAMBDA l : Strip(l) # <<>>)
    IN  [i \in 1..Len(kept) |-> Strip(kept[i])]

\* the number of the lines a.. that are blank and met while no command is
\* being accumulated (a command accumulates from its first line to the first
\* line after which it is complete, or to the end of the block)
RECURSIVE BlankBetweenCommands(_, _)
BlankBetweenCommands(lines, a) ==
    IF a > Len(lines) THEN 0
    ELSE IF Strip(lines[a]) = <<>> THEN 1 + BlankBetweenCommands(lines, a + 1)
    ELSE LET ends == {j \in a..Len(lines) : CompleteAt(lines, a, j)}
         IN  IF ends = {} THEN 0 ELSE BlankBetweenCommands(lines, Min(ends) + 1)

\* C26: _split_commands emits no empty or whitespace-only command; the
\* emitted commands, one after the other, hold every non-blank line of the
\* block exactly once and in the order of the block; and the only lines of the
\* block they do not hold are the blank lines met while the buffer is empty.
C26_SplitterConservation ==
    Applied("_split_commands") =>
        LET given == SplitLines(arg)
            held  == SplitLines(Join(out, NL))
        IN  /\ \A i \in 1..Len(out) : Strip(out[i]) # <<>>
            /\ NonBlankLines(held) = NonBlankLines(given)
            /\ Len(held) = Len(given) - BlankBetweenCommands(given, 1)

\* C27: for every command the gate approved, under every configuration, the
\* first whitespace-delimited token of the string handed to the shell (the
\* result of _rewrite_command_paths) is the allow-listed name the gate
\* approved on the raw command, and the quiet-class decision is the one that
\* name calls for.
C27_GateSurvivesRewriting ==
    \A i \in 1..Len(spawned) :
        /\ _is_allowed_command(spawned[i].source)
        /\ FirstToken(spawned[i].source) \in ALLOWED_COMMANDS
        /\ FirstToken(spawned[i].cmd) = FirstToken(spawned[i].source)
        /\ spawned[i].quiet <=> (FirstToken(spawned[i].source) \in QUIET_COMMANDS)

\* a shell was spawned for a command the rewriting changed, in the quiet class
C27_Witness ==
    \E i \in 1..Len(spawned) :
        /\ spawned[i].cmd # spawned[i].source
        /\ spawned[i].quiet
        /\ FirstToken(spawned[i].cmd) = FirstToken(spawned[i].source)

\* a stage of the call ended well
Succeeded(stage) == \E i \in 1..Len(stages) : stages[i] = [stage |-> stage, ok |-> TRUE]

\* C28: in one call the three effects exclude each other. The command pass
\* starts, and a shell is spawned, only if no structured object was built and
\* no patch was applied; a non-empty file-change list is returned only if
\* neither the patch tool nor the command pass was invoked; so in a returned
\* status patch_applied implies commands_executed = 0 and no file change, and
\* commands_executed > 0 implies patch_applied = FALSE and no file change.
C28_ExclusiveEffects ==
    /\ (Attempted("commands") \/ spawned # <<>>) =>
           /\ ~Succeeded("construct")
           /\ ~Succeeded("patch")
           /\ ~status.patch_applied
    /\ Returned =>
           /\ response.files # <<>> =>
                  /\ ~Attempted("patch")
                  /\ patch_calls = <<>>
                  /\ ~Attempted("commands")
                  /\ spawned = <<>>
           /\ status.patch_applied =>
                  /\ status.commands_executed = 0
                  /\ response.files = <<>>
           /\ status.commands_executed > 0 =>
                  /\ ~status.patch_applied
                  /\ response.files = <<>>

\* the call returned after the patch tool was run and failed and the command
\* pass then executed a command
C28_Witness ==
    /\ Returned
    /\ patch_calls # <<>>
    /\ status.commands_executed > 0
    /\ ~status.patch_applied
    /\ response.files = <<>>
====
